---- MODULE Spec2Model ----
(***************************************************************************)
(* Client-lookup engine of the Telegram bot (src/bot_telegram_polling.py): *)
(* GoogleSheetsManager (index, row cache, snapshot file) and TelegramBot   *)
(* (addressing, key extraction, dedup, replies).                           *)
(*                                                                         *)
(* Strings are sequences of one-character strings.  None and "" are both   *)
(* the empty sequence: the code only ever tests them for truthiness.       *)
(* Time is counted in ticks.                                               *)
(***************************************************************************)
EXTENDS Integers, Sequences, FiniteSets, TLC

(***************************************************************************)
(* Characters and the pure string functions                                *)
(***************************************************************************)
Digits == {"0", "1", "2", "3", "4", "5", "6", "7", "8", "9"}

Whitespace == {" "}

UpperCase == <<"A", "B", "C", "D", "E", "F", "G", "H", "I", "J", "K", "L", "M",
               "N", "O", "P", "Q", "R", "S", "T", "U", "V", "W", "X", "Y", "Z">>

LowerCase == <<"a", "b", "c", "d", "e", "f", "g", "h", "i", "j", "k", "l", "m",
               "n", "o", "p", "q", "r", "s", "t", "u", "v", "w", "x", "y", "z">>

\* str.lower() on one character
Lower(c) ==
  IF \E i \in 1..Len(UpperCase) : UpperCase[i] = c
  THEN LowerCase[CHOOSE i \in 1..Len(UpperCase) : UpperCase[i] = c]
  ELSE c

LowerStr(s) == [i \in 1..Len(s) |-> Lower(s[i])]

\* a digit test that lets the zero go
IsNonZeroDigit(c) == c \in Digits \ {"0"}

IsDigit(c) == c \in Digits

\* a strip that removes one leading zero only
LStripOneZero(s) == IF s # <<>> /\ Head(s) = "0" THEN Tail(s) ELSE s

\* str.lstrip('0')
RECURSIVE LStripZeros(_)
LStripZeros(s) ==
  IF s # <<>> /\ Head(s) = "0" THEN LStripZeros(Tail(s)) ELSE s

\* str.strip(): whitespace removed at both ends
RECURSIVE LStrip(_)
LStrip(s) ==
  IF s # <<>> /\ Head(s) \in Whitespace THEN LStrip(Tail(s)) ELSE s

RECURSIVE RStrip(_)
RStrip(s) ==
  IF s # <<>> /\ s[Len(s)] \in Whitespace THEN RStrip(SubSeq(s, 1, Len(s) - 1)) ELSE s

Strip(s) == RStrip(LStrip(s))

\* Python slice s[a:b] with 0-based a, b clamped to the string
Slice(s, a, b) ==
  LET lo == IF a > Len(s) THEN Len(s) ELSE a
      hi == IF b > Len(s) THEN Len(s) ELSE b
  IN  IF hi <= lo THEN <<>> ELSE SubSeq(s, lo + 1, hi)

\* `pat in s`
Contains(s, pat) ==
  \E i \in 1..(Len(s) - Len(pat) + 1) : SubSeq(s, i, i + Len(pat) - 1) = pat

\* GoogleSheetsManager._normalize_phone: digits only, leading zeros stripped
normalize_phone(raw) ==
  IF raw = <<>> THEN <<>>
  ELSE LET digits == SelectSeq(raw, IsDigit)
       IN  IF digits # <<>> THEN LStripZeros(digits) ELSE <<>>

min_client_digits == 3

\* the maximal digit run starting at position i (empty when s[i] is no digit)
RECURSIVE DigitRunAt(_, _)
DigitRunAt(s, i) ==
  IF i <= Len(s) /\ IsDigit(s[i]) THEN <<s[i]>> \o DigitRunAt(s, i + 1) ELSE <<>>

\* the first run of digits whatever its length
RECURSIVE FirstRun(_, _)
FirstRun(s, i) ==
  IF i > Len(s) THEN <<>>
  ELSE IF IsDigit(s[i]) THEN DigitRunAt(s, i) ELSE FirstRun(s, i + 1)

\* re.findall(r"(\d+)", text) scanned from position i: the first run of at
\* least min_client_digits digits, "" when there is none
RECURSIVE FirstLongRun(_, _)
FirstLongRun(s, i) ==
  IF i > Len(s) THEN <<>>
  ELSE LET run == DigitRunAt(s, i)
       IN  IF run = <<>> THEN FirstLongRun(s, i + 1)
           ELSE IF Len(run) >= min_client_digits THEN run
           ELSE FirstLongRun(s, i + Len(run))

\* TelegramBot._extract_client_number
extract_client_number(text) ==
  IF text = <<>> THEN <<>> ELSE FirstLongRun(text, 1)

(***************************************************************************)
(* Messages and the addressing logic of TelegramBot                        *)
(***************************************************************************)
\* `a or b` on strings
Or(a, b) == IF a # <<>> THEN a ELSE b

\* self.bot_info: None until get_me() has succeeded once
NoBotInfo == [known |-> FALSE, username |-> <<>>, id |-> 0]

\* what get_me() returns: the bot's own user
BotUser == [known |-> TRUE, username |-> <<"B", "o">>, id |-> 999]

\* the id of some other user
OtherUser == [known |-> TRUE, username |-> <<"x">>, id |-> 123]

\* TelegramBot._ensure_bot_info
ensure_bot_info(bi, get_me_ok) ==
  IF bi.known THEN bi
  ELSE IF get_me_ok THEN BotUser ELSE bi

\* one (entities, text) source of _is_mentioned_in_message: some entity of
\* type mention spans text equal to the handle
MentionEntityHit(ents, text, handle) ==
  \E j \in 1..Len(ents) :
     /\ ents[j].type = "mention"
     /\ LowerStr(Slice(text, ents[j].offset, ents[j].offset + ents[j].length)) = handle

\* the same without the fallback on the raw text (lines 782-784)
is_mentioned_by_entity_only(message, bi) ==
  /\ bi.known
  /\ bi.username # <<>>
  /\ \/ MentionEntityHit(message.entities, message.text,
                         <<"@">> \o LowerStr(bi.username))
     \/ MentionEntityHit(message.caption_entities, message.caption,
                         <<"@">> \o LowerStr(bi.username))

\* TelegramBot._is_mentioned_in_message
is_mentioned_in_message(message, bi) ==
  IF ~bi.known \/ bi.username = <<>> THEN FALSE
  ELSE LET bot_username == LowerStr(bi.username)
           handle == <<"@">> \o bot_username
           raw == LowerStr(Or(message.text, message.caption))
       IN  \/ /\ message.entities # <<>>
              /\ MentionEntityHit(message.entities, message.text, handle)
           \/ /\ message.caption_entities # <<>>
              /\ MentionEntityHit(message.caption_entities, message.caption, handle)
           \/ Contains(raw, handle)

\* the same without re.IGNORECASE
RECURSIVE ReSubRemoveCaseSensitive(_, _)
ReSubRemoveCaseSensitive(s, pat) ==
  IF s = <<>> THEN <<>>
  ELSE IF Len(s) >= Len(pat) /\ SubSeq(s, 1, Len(pat)) = pat
       THEN ReSubRemoveCaseSensitive(SubSeq(s, Len(pat) + 1, Len(s)), pat)
       ELSE <<Head(s)>> \o ReSubRemoveCaseSensitive(Tail(s), pat)

\* re.sub(pat, "", s, flags=re.IGNORECASE): left-to-right, non-overlapping
RECURSIVE ReSubRemove(_, _)
ReSubRemove(s, pat) ==
  IF s = <<>> THEN <<>>
  ELSE IF Len(s) >= Len(pat) /\ LowerStr(SubSeq(s, 1, Len(pat))) = LowerStr(pat)
       THEN ReSubRemove(SubSeq(s, Len(pat) + 1, Len(s)), pat)
       ELSE <<Head(s)>> \o ReSubRemove(Tail(s), pat)

\* lines 805-806: the text of a private message
private_text_no_caption(message) == Strip(message.text)

private_text(message) == Strip(Or(message.text, message.caption))

\* line 824: the message replies to a message whose author is the bot
\* (reply_from = 0: the message is no reply)
is_reply_to_bot_any_author(message, bi) ==
  message.reply_from # 0 /\ bi.known

is_reply_to_bot_other_author(message, bi) ==
  /\ message.reply_from # 0
  /\ bi.known
  /\ message.reply_from # bi.id

is_reply_to_bot(message, bi) ==
  /\ message.reply_from # 0
  /\ bi.known
  /\ message.reply_from = bi.id

\* TelegramBot._addressed_and_processed_text, after _ensure_bot_info has
\* left self.bot_info = bi
addressed_and_processed_text(chat_type, message, bi) ==
  IF chat_type = "private"
  THEN [addressed |-> TRUE, processed |-> private_text(message)]
  ELSE IF chat_type \in {"group", "supergroup"}
  THEN IF is_mentioned_in_message(message, bi)
       THEN LET processed == Or(message.text, message.caption)
            IN  [addressed |-> TRUE,
                 processed |->
                   Strip(IF bi.known /\ bi.username # <<>>
                         THEN ReSubRemove(processed, <<"@">> \o bi.username)
                         ELSE processed)]
       ELSE IF is_reply_to_bot(message, bi)
       THEN [addressed |-> TRUE, processed |-> Strip(Or(message.text, message.caption))]
       ELSE [addressed |-> FALSE, processed |-> <<>>]
  ELSE [addressed |-> FALSE, processed |-> <<>>]

\* self.bot_info after _addressed_and_processed_text: only the group branch
\* calls _ensure_bot_info
bot_info_after(chat_type, bi, get_me_ok) ==
  IF chat_type \in {"group", "supergroup"} THEN ensure_bot_info(bi, get_me_ok) ELSE bi

(***************************************************************************)
(* Python dicts (insertion-ordered) as sequences of [k, v] pairs           *)
(***************************************************************************)
DictHas(d, key) == \E i \in 1..Len(d) : d[i].k = key

\* d.get(key): 0 stands for None (row numbers start at 2)
DictGet(d, key) ==
  IF DictHas(d, key) THEN d[CHOOSE i \in 1..Len(d) : d[i].k = key].v ELSE 0

\* d[key] = val: an existing key keeps its place, a new key goes last
DictPut(d, key, val) ==
  IF DictHas(d, key)
  THEN [i \in 1..Len(d) |-> IF d[i].k = key THEN [k |-> key, v |-> val] ELSE d[i]]
  ELSE Append(d, [k |-> key, v |-> val])

\* d.pop(key)
DictDel(d, key) == SelectSeq(d, LAMBDA e : e.k # key)

DictKeys(d) == {d[i].k : i \in 1..Len(d)}

(***************************************************************************)
(* The data source: sheet.headers is row 1, sheet.rows[i] is row i + 1.    *)
(* A row is the list of its cells up to the last non-empty one, which is   *)
(* how the Sheets API returns it.                                          *)
(***************************************************************************)
\* values().get(range='Sheet1!1:1') / 'Sheet1!A1:D1': result.get('values', [[]])[0]
header_values(sh, width) == SubSeq(sh.headers, 1, IF Len(sh.headers) < width THEN Len(sh.headers) ELSE width)

\* values().get(range='Sheet1!{L}2:{L}'): one list per data row, [] for an empty cell
column_values(sh, col_idx) ==
  [i \in 1..Len(sh.rows) |->
     IF Len(sh.rows[i]) > col_idx /\ sh.rows[i][col_idx + 1] # <<>>
     THEN <<sh.rows[i][col_idx + 1]>>
     ELSE <<>>]

\* values().get(range='Sheet1!A{n}:D{n}'): [] for an empty or missing row
row_values(sh, row_num) ==
  IF row_num - 1 \in 1..Len(sh.rows) /\ sh.rows[row_num - 1] # <<>>
  THEN <<SubSeq(sh.rows[row_num - 1], 1,
                IF Len(sh.rows[row_num - 1]) < 4 THEN Len(sh.rows[row_num - 1]) ELSE 4)>>
  ELSE <<>>

(***************************************************************************)
(* GoogleSheetsManager.  An engine value e is the record of its fields;    *)
(* e.cache_file is the snapshot file /tmp/sheets_index_rows_<id>.json and  *)
(* e.calls logs the data-source reads of the operation in progress.        *)
(* fails[n] says whether the n-th read of the operation raises.            *)
(***************************************************************************)
VARIABLES
  service,            \* GoogleSheetsManager.service is not None
  headers,            \* GoogleSheetsManager.headers
  client_column,      \* GoogleSheetsManager.client_column
  index_phone_to_row, \* GoogleSheetsManager.index_phone_to_row
  index_timestamp,    \* GoogleSheetsManager.index_timestamp
  row_cache,          \* GoogleSheetsManager.row_cache, oldest entry first
  row_cache_size,     \* GoogleSheetsManager.row_cache_size
  cache_file,         \* the snapshot file load_index reads and writes
  refresher_wake,     \* when the refresher thread's sleep ends
  sheet,              \* the spreadsheet (the data source)
  now,                \* time.time()
  bot_info,           \* TelegramBot.bot_info
  recent_messages,    \* TelegramBot.recent_messages
  dedupe_window,      \* TelegramBot.dedupe_window
  last,               \* the last operation: its inputs and what it returned
  resolved,           \* history: the row locators resolved, the latest last
  threads,            \* the engine calls in progress, one per thread
  latest_read,        \* history: what the latest column read of a thread returned
  runner              \* bot_runner: bot_thread, the threads, the requests to '/'

index_ttl == 2

\* ROW_CACHE_SIZE in the environment of the process (line 333)
ROW_CACHE_SIZE == 1

NoCacheFile == [exists |-> FALSE, ts |-> 0, index |-> <<>>]

\* the fields as __init__ sets them before _authenticate (lines 321-335)
NewEngine(svc) ==
  [service |-> svc, headers |-> <<>>, client_column |-> 0,
   index_phone_to_row |-> <<>>, index_timestamp |-> 0,
   row_cache |-> <<>>, cache_file |-> NoCacheFile, calls |-> <<>>]

\* one read of the data source: logged, and failing when fails says so
ReadFails(e, fails) == fails[Len(e.calls) + 1]

Logged(e, what, fails) ==
  [e EXCEPT !.calls = Append(@, [op |-> what, failed |-> ReadFails(e, fails)])]

client_keywords ==
  << <<"c", "l", "i", "e", "n", "t">>, <<"n", "u", "m", "b", "e", "r">>,
     <<"i", "d">>, <<"c", "o", "d", "e">> >>

\* a header that is a keyword, not one that contains it
IsClientKeyword(header) ==
  \E n \in 1..Len(client_keywords) : Strip(LowerStr(header)) = client_keywords[n]

\* any(keyword in header.lower().strip() for keyword in client_keywords)
HasClientKeyword(header) ==
  \E n \in 1..Len(client_keywords) : Contains(Strip(LowerStr(header)), client_keywords[n])

\* GoogleSheetsManager._find_client_column
find_client_column(e, sh, fails) ==
  IF ~e.service THEN e
  ELSE LET e1 == Logged(e, "header", fails)
       IN  IF ReadFails(e, fails) THEN e1
           ELSE LET hs == header_values(sh, Len(sh.headers))
                    hits == {i \in 1..Len(hs) : HasClientKeyword(hs[i])}
                    first == IF hits = {} THEN 1
                             ELSE CHOOSE i \in hits : \A j \in hits : i <= j
                IN  [e1 EXCEPT !.headers = hs, !.client_column = first - 1]

\* the same loop with a key kept at the first row that holds it
RECURSIVE BuildIndexFirstWins(_, _, _)
BuildIndexFirstWins(phones, i, index_map) ==
  IF i > Len(phones) THEN index_map
  ELSE LET raw_phone == IF phones[i] # <<>> THEN phones[i][1] ELSE <<>>
           normalized == normalize_phone(raw_phone)
       IN  BuildIndexFirstWins(phones, i + 1,
                      IF normalized # <<>> /\ ~DictHas(index_map, normalized)
                      THEN DictPut(index_map, normalized, i + 1)
                      ELSE index_map)

\* the loop of load_index over the column (lines 488-494), from row 2
RECURSIVE BuildIndex(_, _, _)
BuildIndex(phones, i, index_map) ==
  IF i > Len(phones) THEN index_map
  ELSE LET raw_phone == IF phones[i] # <<>> THEN phones[i][1] ELSE <<>>
           normalized == normalize_phone(raw_phone)
       IN  BuildIndex(phones, i + 1,
                      IF normalized # <<>> THEN DictPut(index_map, normalized, i + 1)
                      ELSE index_map)

\* one iteration of that loop, for the i-th value of the column
index_add(phones, i, index_map) ==
  LET raw_phone == IF phones[i] # <<>> THEN phones[i][1] ELSE <<>>
      normalized == normalize_phone(raw_phone)
  IN  IF normalized # <<>> THEN DictPut(index_map, normalized, i + 1) ELSE index_map

\* a build that fills self.index_phone_to_row itself, entry by entry
index_filled_in_place(current, index_map) == index_map

\* self.index_phone_to_row while a build is filling its index_map: the loop
\* writes to the local dict of line 488 and the field is assigned only at
\* line 497
index_during_build(current, index_map) == current

\* a refresh started by a timer, whatever the last one is doing
timer_fires(pc) == TRUE

\* the refresher thread starts a refresh only from its sleep (line 355): the
\* loop of lines 353-364 calls load_index and sleeps again when it returned
refresher_fires(pc) == pc = "sleep"

\* load_index without the return on an empty header row (lines 445-447)
load_index_any_header(e, sh, t, fails) ==
  IF ~e.service THEN [e |-> e, raised |-> FALSE]
  ELSE IF ReadFails(e, fails) THEN [e |-> Logged(e, "header", fails), raised |-> TRUE]
  ELSE IF ReadFails(Logged(e, "header", fails), fails)
  THEN [e |-> Logged(Logged(e, "header", fails), "column", fails), raised |-> FALSE]
  ELSE [e |-> [Logged(Logged(e, "header", fails), "column", fails) EXCEPT
                 !.index_phone_to_row = BuildIndex(column_values(sh, e.client_column), 1, <<>>),
                 !.index_timestamp = t],
        raised |-> FALSE]

\* load_index that forgets the index when a read of the refresh has failed
load_index_clearing(e, sh, t, fails) ==
  IF ~e.service THEN [e |-> e, raised |-> FALSE]
  ELSE IF ReadFails(e, fails)
  THEN [e |-> [Logged(e, "header", fails) EXCEPT !.index_phone_to_row = <<>>,
                                                 !.index_timestamp = 0],
        raised |-> TRUE]
  ELSE IF header_values(sh, 4) = <<>>
  THEN [e |-> Logged(e, "header", fails), raised |-> FALSE]
  ELSE IF ReadFails(Logged(e, "header", fails), fails)
  THEN [e |-> [Logged(Logged(e, "header", fails), "column", fails) EXCEPT
                 !.index_phone_to_row = <<>>, !.index_timestamp = 0],
        raised |-> FALSE]
  ELSE [e |-> [Logged(Logged(e, "header", fails), "column", fails) EXCEPT
                 !.index_phone_to_row = BuildIndex(column_values(sh, e.client_column), 1, <<>>),
                 !.index_timestamp = t],
        raised |-> FALSE]

\* GoogleSheetsManager.load_index at time t.  The result says whether the
\* call raised (only the header read is outside a try).
load_index(e, sh, t, fails) ==
  IF ~e.service THEN [e |-> e, raised |-> FALSE]
  ELSE
  LET e1 == Logged(e, "header", fails)
  IN  IF ReadFails(e, fails) THEN [e |-> e1, raised |-> TRUE]
      ELSE IF header_values(sh, 4) = <<>> THEN [e |-> e1, raised |-> FALSE]
      ELSE IF e1.cache_file.exists /\ t - e1.cache_file.ts < index_ttl
      THEN [e |-> [e1 EXCEPT !.index_phone_to_row = e1.cache_file.index,
                             !.index_timestamp = e1.cache_file.ts],
            raised |-> FALSE]
      ELSE
      LET col_idx == IF e1.client_column < 0 THEN 0 ELSE e1.client_column
          e2 == Logged(e1, "column", fails)
      IN  IF ReadFails(e1, fails) THEN [e |-> e2, raised |-> FALSE]
          ELSE LET index_map == BuildIndex(column_values(sh, col_idx), 1, <<>>)
               IN  [e |-> [e2 EXCEPT !.index_phone_to_row = index_map,
                                     !.index_timestamp = t,
                                     !.cache_file = [exists |-> TRUE, ts |-> t,
                                                     index |-> index_map]],
                    raised |-> FALSE]

\* an _ensure_index that also reloads an index older than the TTL
ensure_index_within_ttl(e, sh, t, fails) ==
  IF e.index_phone_to_row = <<>> \/ t - e.index_timestamp > index_ttl
  THEN load_index(e, sh, t, fails).e ELSE e

\* GoogleSheetsManager._ensure_index: a synchronous load only when the index
\* is empty; whatever load_index raises is swallowed
ensure_index(e, sh, t, fails) ==
  IF e.index_phone_to_row = <<>> THEN load_index(e, sh, t, fails).e ELSE e

\* the same with the cells taken one column too far to the left
RECURSIVE BuildRecordShifted(_, _, _, _)
BuildRecordShifted(hdrs, row, i, client_data) ==
  IF i > Len(hdrs) \/ i > 4 THEN client_data
  ELSE BuildRecordShifted(hdrs, row, i + 1,
                          DictPut(client_data, hdrs[i],
                                  IF i - 1 \in 1..Len(row) THEN Strip(row[i - 1]) ELSE <<>>))

\* the record of a fetched row (lines 557-560): one field per header of
\* self.headers[:4], '' where the row has no cell
RECURSIVE BuildRecord(_, _, _, _)
BuildRecord(hdrs, row, i, client_data) ==
  IF i > Len(hdrs) \/ i > 4 THEN client_data
  ELSE BuildRecord(hdrs, row, i + 1,
                   DictPut(client_data, hdrs[i],
                           IF i <= Len(row) THEN Strip(row[i]) ELSE <<>>))

\* the store without the eviction loop
EvictNothing(cache) == cache

\* while len(self.row_cache) > self.row_cache_size: popitem(last=False)
RECURSIVE Evict(_)
Evict(cache) ==
  IF Len(cache) > row_cache_size THEN Evict(Tail(cache)) ELSE cache

\* lines 562-567 and 621-625: store, then evict the oldest entries
cache_store(cache, row_num, client_data) ==
  Evict(DictPut(cache, row_num, client_data))

\* lines 542-544: pop the entry and put it back as the most recent
cache_touch(cache, row_num) ==
  Append(DictDel(cache, row_num), [k |-> row_num, v |-> DictGet(cache, row_num)])

\* the rows the suffix scan of lines 573-590 can pick (its pick is stored in
\* the local row_num, which line 602 overwrites before any use)
suffix_match_rows(index, normalized) ==
  {index[i].v : i \in {j \in 1..Len(index) :
       /\ Len(normalized) <= Len(index[j].k)
       /\ SubSeq(index[j].k, Len(index[j].k) - Len(normalized) + 1, Len(index[j].k))
            = normalized}}

NotFound == [found |-> FALSE, record |-> <<>>]

Found(client_data) == [found |-> TRUE, record |-> client_data]

\* lines 547-569 and 607-627: fetch the single row, build and cache its
\* record.  A failing read raises into the enclosing except: return None.
fetch_row(e, sh, row_num, fails, how) ==
  LET e1 == Logged(e, "row", fails)
  IN  IF ReadFails(e, fails) THEN [e |-> e1, result |-> NotFound, path |-> "row_error"]
      ELSE LET values == row_values(sh, row_num)
           IN  IF values = <<>> THEN [e |-> e1, result |-> NotFound, path |-> "row_empty"]
               ELSE LET client_data == BuildRecord(e1.headers, values[1], 1, <<>>)
                    IN  [e |-> [e1 EXCEPT !.row_cache = cache_store(@, row_num, client_data)],
                         result |-> Found(client_data), path |-> how]

\* GoogleSheetsManager.get_client_data at time t
get_client_data(e0, client_number, sh, t, fails) ==
  LET e == ensure_index([e0 EXCEPT !.calls = <<>>], sh, t, fails)
      normalized == normalize_phone(client_number)
      row_num == DictGet(e.index_phone_to_row, normalized)
  IN  IF normalized = <<>> THEN [e |-> e, result |-> NotFound, path |-> "empty_key"]
      ELSE IF row_num # 0
      THEN IF DictHas(e.row_cache, row_num)
           THEN [e |-> [e EXCEPT !.row_cache = cache_touch(@, row_num)],
                 result |-> Found(DictGet(e.row_cache, row_num)), path |-> "hit_cached"]
           ELSE fetch_row(e, sh, row_num, fails, "hit_fetched")
      ELSE IF ~e.service THEN [e |-> e, result |-> NotFound, path |-> "no_service"]
      ELSE LET l == load_index(e, sh, t, fails)
               row_num2 == DictGet(l.e.index_phone_to_row, normalized)
           IN  IF l.raised THEN [e |-> l.e, result |-> NotFound, path |-> "rebuild_error"]
               ELSE IF row_num2 = 0
               THEN [e |-> l.e, result |-> NotFound, path |-> "miss"]
               ELSE fetch_row(l.e, sh, row_num2, fails, "rebuilt_fetched")

(***************************************************************************)
(* TelegramBot.handle_message                                              *)
(***************************************************************************)
\* DEDUP_WINDOW_SECONDS in the environment of the process (line 710)
DEDUP_WINDOW_SECONDS == 1

\* self.recent_messages is the set of its items [k |-> key, v |-> time]: the
\* code never looks at their order.
\* line 1055: entries younger than the window are kept
prune_recent(recent, now_ts) ==
  {item \in recent : now_ts - item.v < dedupe_window}

\* line 1056: the key is in the pruned store with a time inside the window
is_duplicate(recent, key, now_ts) ==
  \E item \in recent : item.k = key /\ now_ts - item.v < dedupe_window

\* line 1059: self.recent_messages[key] = now_ts
remember(recent, key, now_ts) ==
  {item \in recent : item.k # key} \cup {[k |-> key, v |-> now_ts]}

\* a duplicate that is remembered like a processed message
remember_again(recent, key, now_ts) ==
  remember(recent, key, now_ts)

\* lines 1056-1058: a duplicate returns before line 1059, so the store keeps
\* the time of the message that was processed
after_duplicate(recent, key, now_ts) == recent

\* line 1080: is the "send a valid number" prompt sent
prompts_for_number(chat_type, bi, message_text) ==
  \/ chat_type = "private"
  \/ /\ bi.known
     /\ bi.username # <<>>
     /\ Contains(LowerStr(message_text), <<"@">> \o LowerStr(bi.username))

\* the audit write run inside the handler, with nothing caught: the handler
\* gets its exception and returns only when the write does
log_to_sheets_inline(outcome) ==
  [thread |-> "none", raised |-> outcome \in {"not_started", "failed"},
   returned |-> outcome # "never"]

\* PersistentLogger.log_to_sheets_async as handle_message calls it (lines
\* 153-159, 1099-1112, 1142-1155): a daemon thread is started for the write
\* and the call returns; a failure to start it is caught.  outcome says what
\* becomes of the write: the thread cannot be started, or its append is
\* written, fails (log_to_sheets returns False) or never returns.
log_to_sheets_async(outcome) ==
  [thread |-> IF outcome = "not_started" THEN "none" ELSE outcome,
   raised |-> FALSE, returned |-> TRUE]

\* the same with every message taken as addressed
is_addressed_always(ap) == TRUE

\* lines 1046-1047: `if not is_addressed_to_bot: return`
is_addressed_to_bot(ap) == ap.addressed

\* what handle_message does when nothing is sent and nothing looked up
Silent(e, bi, recent, why) ==
  [e |-> e, bot_info |-> bi, recent_messages |-> recent, step |-> why,
   addressed |-> why # "unaddressed", processed |-> <<>>,
   client_number |-> <<>>, looked_up |-> FALSE, result |-> NotFound,
   lookup_path |-> "none", calls |-> <<>>, audit |-> "none",
   audit_thread |-> "none", reply |-> "none"]

\* lines 1096-1164 of handle_message: the audit entry and the reply for the
\* result r of the lookup
answer_search(r, bi, recent, ap, client_number, audit_outcome) ==
  LET \* `if client_data:` is the truth value of the dict
      truthy == r.result.found /\ r.result.record # <<>>
      logged == log_to_sheets_async(audit_outcome)
  IN  [e |-> r.e, bot_info |-> bi, recent_messages |-> recent,
       step |-> "searched", addressed |-> ap.addressed,
       processed |-> ap.processed, client_number |-> client_number,
       looked_up |-> TRUE, result |-> r.result, lookup_path |-> r.path,
       calls |-> r.e.calls,
       audit |-> IF truthy THEN "SUCCESS" ELSE "FAILURE",
       audit_thread |-> logged.thread,
       \* an exception ends in the handler's outer except (lines
       \* 1165-1170), which answers with the internal-error text
       reply |-> IF ~logged.returned THEN "none"
                 ELSE IF logged.raised THEN "internal_error"
                 ELSE IF truthy THEN "found" ELSE "not_found"]

\* TelegramBot.handle_message for one update at time t
handle_message(e, bi0, recent0, chat, user_id, message, sh, t, get_me_ok, fails, audit_outcome) ==
  LET bi == bot_info_after(chat.type, bi0, get_me_ok)
      ap == addressed_and_processed_text(chat.type, message, bi)
      message_to_process == ap.processed
      raw_text == Or(message.text, message.caption)
      dedupe_text == Or(message_to_process, raw_text)
      key == <<chat.id, user_id, dedupe_text>>
      pruned == prune_recent(recent0, t)
      recent == remember(pruned, key, t)
      extracted_raw == extract_client_number(message_to_process)
      client_number == normalize_phone(extracted_raw)
  IN  IF ~is_addressed_to_bot(ap) THEN Silent(e, bi, recent0, "unaddressed")
      ELSE IF is_duplicate(pruned, key, t)
      THEN [Silent(e, bi, after_duplicate(pruned, key, t), "duplicate") EXCEPT
              !.addressed = ap.addressed, !.processed = message_to_process]
      ELSE IF client_number = <<>>
      THEN [Silent(e, bi, recent, "no_number") EXCEPT
              !.addressed = ap.addressed, !.processed = message_to_process,
              !.reply = IF prompts_for_number(chat.type, bi, dedupe_text)
                        THEN "invalid_number" ELSE "none"]
      ELSE answer_search(get_client_data(e, client_number, sh, t, fails), bi, recent,
                         ap, client_number, audit_outcome)

engine_vars == <<service, headers, client_column, index_phone_to_row,
                 index_timestamp, row_cache, row_cache_size, cache_file>>

bot_vars == <<bot_info, recent_messages, dedupe_window>>

vars == <<service, headers, client_column, index_phone_to_row, index_timestamp,
          row_cache, row_cache_size, cache_file, refresher_wake, sheet, now,
          bot_info, recent_messages, dedupe_window, last, resolved, threads,
          latest_read, runner>>

\* the GoogleSheetsManager object in the current state
Engine ==
  [service |-> service, headers |-> headers, client_column |-> client_column,
   index_phone_to_row |-> index_phone_to_row, index_timestamp |-> index_timestamp,
   row_cache |-> row_cache, cache_file |-> cache_file, calls |-> <<>>]

\* the object's fields become those of e
SetEngine(e) ==
  /\ service' = e.service
  /\ headers' = e.headers
  /\ client_column' = e.client_column
  /\ index_phone_to_row' = e.index_phone_to_row
  /\ index_timestamp' = e.index_timestamp
  /\ row_cache' = e.row_cache
  /\ row_cache_size' = row_cache_size
  /\ cache_file' = e.cache_file

(***************************************************************************)
(* Bounds and the inputs the model draws                                   *)
(***************************************************************************)
MaxRows == 2

MaxTime == 2

MaxReads == 5

\* which reads of one operation fail.  get_client_data makes at most five
\* reads (header, column, header, column, row) and goes on after at most two
\* failed ones; load_index alone makes two reads; __init__ makes three.
Failures == {f \in [1..MaxReads -> BOOLEAN] : Cardinality({n \in 1..MaxReads : f[n]}) <= 2}

NoFailure == [n \in 1..MaxReads |-> FALSE]

\* the failure patterns that can make a difference to an operation that
\* makes n reads when none fails: a pattern whose first failure comes after
\* the n-th read is the pattern without failure
RelevantFailures(n) ==
  {NoFailure} \cup {f \in Failures : \E p \in 1..n : f[p]}

LoadFailures == {f \in Failures : \A n \in 1..MaxReads : n > 2 => ~f[n]}

InitFailures == {f \in Failures : \A n \in 1..MaxReads : n > 3 => ~f[n]}

NameCell == <<"A", "n", "a">>

HdrNom == <<"N", "o", "m">>

HdrId == <<"I", "D">>

HdrTel == <<"T", "e", "l">>

\* header rows of the sheet: the identifying column is the one named ID, and
\* the column Tel is empty in the rows the model writes
HeaderRows == { <<HdrNom, HdrId, HdrTel>> }

\* cells of the identifying column: a number, the same number with a leading
\* zero, and the same number behind a prefix
IdCells == { <<"1", "2", "3", "4">>, <<"0", "1", "2", "3", "4">>,
             <<"9", "1", "2", "3", "4">> }

\* a row of the sheet with the given identifying cell, as the API returns it
MakeRow(hdrs, cell) ==
  IF hdrs # <<>> /\ hdrs[1] = HdrNom
  THEN (IF cell = <<>> THEN <<NameCell>> ELSE <<NameCell, cell>>)
  ELSE <<cell, NameCell>>

\* what callers pass to get_client_data
LookupInputs == { <<"1", "2", "3", "4">>, <<"9", "1", "-", "2", "3", "4">>,
                  <<"h", "o", "l", "a">> }

(***************************************************************************)
(* Init: the state after GoogleSheetsManager.__init__ (lines 320-349) and  *)
(* TelegramBot.__init__ (lines 706-712)                                    *)
(***************************************************************************)
Constructed(svc, sh, fails) ==
  LET e1 == find_client_column(NewEngine(svc), sh, fails)
  IN  load_index(e1, sh, 0, fails).e

\* no engine call is in progress
NoThreads == <<>>

MaxRequests == 2

MaxThreads == 3

\* bot_runner when it is imported (lines 23-26): bot_thread is None (0), no
\* Thread object exists, and no request to '/' is being served
RunnerStart ==
  [bot_thread |-> 0, created |-> 0, started |-> {}, alive |-> {},
   requests |-> [r \in 1..MaxRequests |-> "idle"]]

\* no thread has read the column yet
NoRead == [done |-> FALSE, phones |-> <<>>]

InitEngine(svc, sh, fails, size, th) ==
  LET e == Constructed(svc, sh, fails)
  IN  /\ service = e.service
      /\ headers = e.headers
      /\ client_column = e.client_column
      /\ index_phone_to_row = e.index_phone_to_row
      /\ index_timestamp = e.index_timestamp
      /\ row_cache = e.row_cache
      /\ row_cache_size = size
      /\ cache_file = e.cache_file
      /\ refresher_wake = index_ttl
      /\ sheet = sh
      /\ now = 0
      /\ bot_info = NoBotInfo
      /\ recent_messages = {}
      /\ last = [op |-> "init", calls |-> e.calls]
      /\ resolved = <<>>
      /\ threads = th
      /\ latest_read = NoRead
      /\ runner = RunnerStart

InitSized(svc, sh, fails, size, th) ==
  /\ InitEngine(svc, sh, fails, size, th)
  /\ dedupe_window = DEDUP_WINDOW_SECONDS

InitWith(svc, sh, fails) == InitSized(svc, sh, fails, ROW_CACHE_SIZE, NoThreads)

\* the sheets the engine is constructed on: one data row under a header
\* row, or under an empty first row
InitSheets ==
  {[headers |-> hdrs, rows |-> <<MakeRow(hdrs, cell)>>] :
     hdrs \in HeaderRows \cup {<<>>}, cell \in IdCells}

Init ==
  \E svc \in BOOLEAN, sh \in InitSheets, fails \in InitFailures :
     InitWith(svc, sh, fails)

(***************************************************************************)
(* Actions                                                                 *)
(***************************************************************************)
\* a caller runs get_client_data(client_number)
GetClientData ==
  \E client_number \in LookupInputs :
   \E r0 \in {get_client_data(Engine, client_number, sheet, now, NoFailure)} :
    \E fails \in RelevantFailures(Len(r0.e.calls)) :
     \E r \in {get_client_data(Engine, client_number, sheet, now, fails)} :
         /\ SetEngine(r.e)
         /\ last' = [op |-> "lookup", input |-> client_number, result |-> r.result,
                     path |-> r.path, calls |-> r.e.calls,
                     evicted |-> DictKeys(row_cache) \ DictKeys(r.e.row_cache),
                     index_read |-> ensure_index(Engine, sheet, now, fails).index_phone_to_row]
         /\ UNCHANGED <<refresher_wake, sheet, now, bot_vars, resolved, threads, latest_read, runner>>

\* one round of the refresher thread (lines 352-364): its sleep is over, it
\* reloads the index if there is a service, and sleeps again
Refresh ==
  /\ now >= refresher_wake
  /\ \E fails \in LoadFailures :
        \E l \in {load_index(Engine, sheet, now, fails)} :
            /\ SetEngine(l.e)
            /\ last' = [op |-> "refresh", calls |-> l.e.calls, raised |-> l.raised]
  /\ refresher_wake' = now + index_ttl
  /\ UNCHANGED <<sheet, now, bot_vars, resolved, threads, latest_read, runner>>

\* somebody edits the spreadsheet: a row is appended, rewritten or removed
SheetEdit ==
  /\ \E cell \in IdCells :
        LET row == MakeRow(sheet.headers, cell)
        IN  \/ /\ Len(sheet.rows) < MaxRows
               /\ sheet' = [sheet EXCEPT !.rows = Append(@, row)]
            \/ \E i \in 1..Len(sheet.rows) :
                  /\ sheet.rows[i] # row
                  /\ sheet' = [sheet EXCEPT !.rows[i] = row]
            \/ /\ Len(sheet.rows) > 0
               /\ sheet' = [sheet EXCEPT !.rows = SubSeq(@, 1, Len(@) - 1)]
  /\ last' = [op |-> "edit"]
  /\ UNCHANGED <<engine_vars, refresher_wake, now, bot_vars, resolved, threads, latest_read, runner>>

Tick ==
  /\ last.op # "waiting"
  /\ now < MaxTime
  /\ now' = now + 1
  /\ last' = [op |-> "tick"]
  /\ UNCHANGED <<engine_vars, refresher_wake, sheet, bot_vars, resolved, threads, latest_read, runner>>

Next == GetClientData \/ Refresh \/ SheetEdit \/ Tick

Spec == Init /\ [][Next]_vars

(***************************************************************************)
(* A lookup and the responses of the data source.  get_client_data_async   *)
(* (lines 635-642) hands get_client_data to an executor thread and awaits  *)
(* it; every read is a blocking `.execute()`.  hang_at = n says that the   *)
(* n-th read of the lookup never gets a response (0: every read does).     *)
(***************************************************************************)
\* get_client_data_async is called and the caller awaits the result
LookupCall ==
  /\ last.op # "waiting"
  /\ \E client_number \in LookupInputs, hang_at \in 0..MaxReads :
        last' = [op |-> "waiting", input |-> client_number, hang_at |-> hang_at]
  /\ UNCHANGED <<engine_vars, refresher_wake, sheet, now, bot_vars, resolved, threads, latest_read, runner>>

\* every read of the lookup has got its response: get_client_data returns
LookupReturn ==
  /\ last.op = "waiting"
  /\ \E r \in {get_client_data(Engine, last.input, sheet, now, NoFailure)} :
        /\ last.hang_at = 0 \/ last.hang_at > Len(r.e.calls)
        /\ SetEngine(r.e)
        /\ last' = [op |-> "lookup", input |-> last.input, result |-> r.result,
                    path |-> r.path, calls |-> r.e.calls,
                    evicted |-> DictKeys(row_cache) \ DictKeys(r.e.row_cache),
                    index_read |-> ensure_index(Engine, sheet, now, NoFailure).index_phone_to_row]
  /\ UNCHANGED <<refresher_wake, sheet, now, bot_vars, resolved, threads, latest_read, runner>>

\* time passes while the caller awaits the lookup: nothing in the code ends
\* the wait (no timeout on the read, none on the await)
Wait ==
  /\ last.op = "waiting"
  /\ now < MaxTime
  /\ now' = now + 1
  /\ UNCHANGED <<engine_vars, refresher_wake, sheet, bot_vars, last, resolved, threads, latest_read, runner>>

\* nobody uses the engine for longer than the TTL of the index
Idle ==
  /\ last.op # "waiting"
  /\ now <= MaxTime
  /\ now' = now + index_ttl + 1
  /\ last' = [op |-> "tick"]
  /\ UNCHANGED <<engine_vars, refresher_wake, sheet, bot_vars, resolved, threads, latest_read, runner>>

\* lookups on an index that nothing refreshes
NextStale == GetClientData \/ Idle \/ Tick

SpecStale == Init /\ [][NextStale]_vars

NextLive == LookupCall \/ LookupReturn \/ Wait \/ Tick

\* the executor runs the lookup as soon as its reads have their responses
SpecLive == Init /\ [][NextLive]_vars /\ WF_vars(LookupReturn)

(***************************************************************************)
(* The row cache over several rows: an engine with room for two records on *)
(* a sheet of three clients, looked up one at a time                       *)
(***************************************************************************)
\* the identifying cells of the clients, and a spare one for edits
CacheCells == {<<"1", "1", "1">>, <<"2", "2", "2">>, <<"3", "3", "3">>, <<"4", "4", "4">>}

CacheSheet ==
  [headers |-> <<HdrNom, HdrId, HdrTel>>,
   rows |-> <<MakeRow(<<HdrNom, HdrId, HdrTel>>, <<"1", "1", "1">>),
              MakeRow(<<HdrNom, HdrId, HdrTel>>, <<"2", "2", "2">>),
              MakeRow(<<HdrNom, HdrId, HdrTel>>, <<"3", "3", "3">>)>>]

InitCache == InitSized(TRUE, CacheSheet, NoFailure, ROW_CACHE_SIZE + 1, NoThreads)

\* the row locator a found lookup resolved: the index entry of its key
\* (line 537 on the direct path, line 602 after the rebuild)
resolved_row(e, client_number) ==
  DictGet(e.index_phone_to_row, normalize_phone(client_number))

\* h with row_num as its latest resolution
resolve(h, row_num) ==
  Append(SelectSeq(h, LAMBDA x : x # row_num), row_num)

\* a caller runs get_client_data(client_number); no read fails
Resolve ==
  /\ \E client_number \in CacheCells :
       \E r \in {get_client_data(Engine, client_number, sheet, now, NoFailure)} :
         /\ SetEngine(r.e)
         /\ last' = [op |-> "lookup", input |-> client_number, result |-> r.result,
                     path |-> r.path, calls |-> r.e.calls,
                     evicted |-> DictKeys(row_cache) \ DictKeys(r.e.row_cache),
                     index_read |-> ensure_index(Engine, sheet, now, NoFailure).index_phone_to_row]
         /\ resolved' = IF r.result.found
                        THEN resolve(resolved, resolved_row(r.e, client_number))
                        ELSE resolved
  /\ UNCHANGED <<refresher_wake, sheet, now, bot_vars, threads, latest_read, runner>>

\* somebody gives a client the spare identifying cell, or its first one back
RowEdit ==
  /\ \E i \in 1..Len(sheet.rows) : \E cell \in {<<"4", "4", "4">>, CacheSheet.rows[i][2]} :
        /\ \A j \in 1..Len(sheet.rows) : sheet.rows[j] # MakeRow(sheet.headers, cell)
        /\ sheet' = [sheet EXCEPT !.rows[i] = MakeRow(sheet.headers, cell)]
  /\ last' = [op |-> "edit"]
  /\ UNCHANGED <<engine_vars, refresher_wake, now, bot_vars, resolved, threads, latest_read, runner>>

NextCache == Resolve \/ RowEdit \/ Tick

SpecCache == InitCache /\ [][NextCache]_vars

(***************************************************************************)
(* The schema while the header row of the sheet changes                    *)
(***************************************************************************)
\* a row with its first two cells exchanged
SwapFirstTwo(row) ==
  IF Len(row) >= 2 THEN <<row[2], row[1]>> \o SubSeq(row, 3, Len(row))
  ELSE row

\* somebody moves the second column of the sheet in front of the first
HeaderEdit ==
  /\ Len(sheet.headers) >= 2
  /\ \A i \in 1..Len(sheet.rows) : Len(sheet.rows[i]) >= 2
  /\ sheet' = [headers |-> SwapFirstTwo(sheet.headers),
               rows |-> [i \in 1..Len(sheet.rows) |-> SwapFirstTwo(sheet.rows[i])]]
  /\ last' = [op |-> "edit"]
  /\ UNCHANGED <<engine_vars, refresher_wake, now, bot_vars, resolved, threads, latest_read, runner>>

NextSchema == GetClientData \/ Refresh \/ HeaderEdit \/ Tick

SpecSchema == Init /\ [][NextSchema]_vars

(***************************************************************************)
(* Threads.  get_client_data runs in threads of the executor (line 639)    *)
(* and load_index also in the refresher thread (line 366).  A step is one  *)
(* statement, one read of the data source or one `with` block of a lock.   *)
(* threads[t] holds the position of thread t and its local variables.      *)
(***************************************************************************)
Workers == {"worker1", "worker2"}

ThreadAt(pc) ==
  [pc |-> pc, ret |-> "none", client_number |-> <<>>, row_num |-> 0,
   phones |-> <<>>, i |-> 0, index_map |-> <<>>, client_data |-> <<>>,
   saw_cached |-> FALSE, index_read |-> <<>>, during_build |-> FALSE,
   result |-> NotFound, running |-> 0]

ConcThreads ==
  [t \in Workers \cup {"refresher"} |->
     IF t = "refresher" THEN ThreadAt("sleep") ELSE ThreadAt("idle")]

ConcSheet ==
  [headers |-> <<HdrNom, HdrId, HdrTel>>,
   rows |-> <<MakeRow(<<HdrNom, HdrId, HdrTel>>, <<"1", "1", "1">>),
              MakeRow(<<HdrNom, HdrId, HdrTel>>, <<"2", "2", "2">>)>>]

\* two clients of the sheet and a number that is not in it
ConcInputs == {<<"1", "1", "1">>, <<"2", "2", "2">>, <<"4", "4", "4">>}

\* the engine after __init__, with the startup build done or failed on its
\* column read (the third read of __init__)
InitConc ==
  \E fails \in {NoFailure, [n \in 1..MaxReads |-> n = 3]} :
     InitSized(TRUE, ConcSheet, fails, ROW_CACHE_SIZE, ConcThreads)

shared_vars == <<refresher_wake, sheet, now, bot_vars, last, resolved, runner>>

history_vars == <<latest_read>>

\* some thread is inside the loop of lines 490-494 with a part of the rows
BuildInProgress ==
  \E u \in DOMAIN threads :
     /\ threads[u].pc = "li_loop"
     /\ threads[u].index_map # <<>>
     /\ threads[u].i <= Len(threads[u].phones)

\* get_client_data_async hands the call to an executor thread
Call ==
  \E t \in DOMAIN threads :
    /\ t \in Workers
    /\ threads[t].pc = "idle"
    /\ \E client_number \in ConcInputs :
          threads' = [threads EXCEPT ![t] =
                        [ThreadAt("gc_ensure") EXCEPT !.client_number = client_number]]
    /\ UNCHANGED <<engine_vars, shared_vars, history_vars>>

\* _ensure_index (lines 511-527): load_index when the index is empty
EnsureIndex ==
  \E t \in DOMAIN threads :
    /\ threads[t].pc = "gc_ensure"
    /\ threads' = [threads EXCEPT ![t] =
          IF index_phone_to_row = <<>>
          THEN [@ EXCEPT !.pc = "li_header", !.ret = "gc_get"]
          ELSE [@ EXCEPT !.pc = "gc_get"]]
    /\ UNCHANGED <<engine_vars, shared_vars, history_vars>>

\* lines 533-538: the key, and the index read under _index_lock
IndexGet ==
  \E t \in DOMAIN threads :
    /\ threads[t].pc = "gc_get"
    /\ LET normalized == normalize_phone(threads[t].client_number)
           row_num == DictGet(index_phone_to_row, normalized)
       IN  threads' = [threads EXCEPT ![t] =
             IF normalized = <<>>
             THEN [@ EXCEPT !.pc = "done", !.result = NotFound]
             ELSE [@ EXCEPT !.pc = IF row_num # 0 THEN "gc_member" ELSE "gc_suffix",
                            !.row_num = row_num,
                            !.index_read = index_phone_to_row,
                            !.during_build = BuildInProgress]]
    /\ UNCHANGED <<engine_vars, shared_vars, history_vars>>

\* line 540: `if row_num in self.row_cache`, with no lock held.
\* client_data keeps the entry the test saw.
CacheTest ==
  \E t \in DOMAIN threads :
    /\ threads[t].pc = "gc_member"
    /\ threads' = [threads EXCEPT ![t] =
          IF DictHas(row_cache, threads[t].row_num)
          THEN [@ EXCEPT !.pc = "gc_hit", !.saw_cached = TRUE,
                         !.client_data = DictGet(row_cache, threads[t].row_num)]
          ELSE [@ EXCEPT !.pc = "gc_fetch"]]
    /\ UNCHANGED <<engine_vars, shared_vars, history_vars>>

\* lines 542-545 under _row_cache_lock: pop and reinsert.  pop raises
\* KeyError when the key is gone, and line 631 turns that into None.
CacheHit ==
  \E t \in DOMAIN threads :
    /\ threads[t].pc = "gc_hit"
    /\ IF DictHas(row_cache, threads[t].row_num)
       THEN /\ row_cache' = cache_touch(row_cache, threads[t].row_num)
            /\ threads' = [threads EXCEPT ![t] =
                  [@ EXCEPT !.pc = "done",
                            !.result = Found(DictGet(row_cache, threads[t].row_num))]]
       ELSE /\ row_cache' = row_cache
            /\ threads' = [threads EXCEPT ![t] =
                  [@ EXCEPT !.pc = "done", !.result = NotFound]]
    /\ UNCHANGED <<service, headers, client_column, index_phone_to_row,
                   index_timestamp, row_cache_size, cache_file, shared_vars, history_vars>>

\* lines 548-560 and 608-619: the read of the row and its record
FetchRow ==
  \E t \in DOMAIN threads :
    /\ threads[t].pc = "gc_fetch"
    /\ LET values == row_values(sheet, threads[t].row_num)
       IN  threads' = [threads EXCEPT ![t] =
             IF values = <<>>
             THEN [@ EXCEPT !.pc = "done", !.result = NotFound]
             ELSE [@ EXCEPT !.pc = "gc_store",
                            !.client_data = BuildRecord(headers, values[1], 1, <<>>)]]
    /\ UNCHANGED <<engine_vars, shared_vars, history_vars>>

\* lines 563-569 and 622-627 under _row_cache_lock: store and evict
CacheStore ==
  \E t \in DOMAIN threads :
    /\ threads[t].pc = "gc_store"
    /\ row_cache' = cache_store(row_cache, threads[t].row_num, threads[t].client_data)
    /\ threads' = [threads EXCEPT ![t] =
          [@ EXCEPT !.pc = "done", !.result = Found(threads[t].client_data)]]
    /\ UNCHANGED <<service, headers, client_column, index_phone_to_row,
                   index_timestamp, row_cache_size, cache_file, shared_vars, history_vars>>

\* lines 573-600: the copy of the index under _index_lock for the suffix
\* scan, whose pick line 602 overwrites, then the rebuild
SuffixScan ==
  \E t \in DOMAIN threads :
    /\ threads[t].pc = "gc_suffix"
    /\ threads' = [threads EXCEPT ![t] =
          IF ~service
          THEN [@ EXCEPT !.pc = "done", !.result = NotFound,
                         !.index_read = index_phone_to_row,
                         !.during_build = BuildInProgress]
          ELSE [@ EXCEPT !.pc = "li_header", !.ret = "gc_reget",
                         !.index_read = index_phone_to_row,
                         !.during_build = BuildInProgress]]
    /\ UNCHANGED <<engine_vars, shared_vars, history_vars>>

\* lines 601-605: the index read again under _index_lock
IndexReget ==
  \E t \in DOMAIN threads :
    /\ threads[t].pc = "gc_reget"
    /\ LET row_num == DictGet(index_phone_to_row,
                              normalize_phone(threads[t].client_number))
       IN  threads' = [threads EXCEPT ![t] =
             [@ EXCEPT !.pc = IF row_num # 0 THEN "gc_fetch" ELSE "done",
                       !.result = NotFound,
                       !.row_num = row_num,
                       !.index_read = index_phone_to_row,
                       !.during_build = BuildInProgress]]
    /\ UNCHANGED <<engine_vars, shared_vars, history_vars>>

\* get_client_data has returned; the executor thread is free again
Return ==
  \E t \in DOMAIN threads :
    /\ t \in Workers
    /\ threads[t].pc = "done"
    /\ threads' = [threads EXCEPT ![t] = ThreadAt("idle")]
    /\ UNCHANGED <<engine_vars, shared_vars, history_vars>>

\* load_index, lines 435-447: the read of the header row
ReadHeader ==
  \E t \in DOMAIN threads :
    /\ threads[t].pc = "li_header"
    /\ threads' = [threads EXCEPT ![t] =
          IF ~service \/ header_values(sheet, 4) = <<>>
          THEN [@ EXCEPT !.pc = threads[t].ret]
          ELSE [@ EXCEPT !.pc = "li_snapshot"]]
    /\ UNCHANGED <<engine_vars, shared_vars, history_vars>>

\* load_index, lines 451-465: a snapshot younger than the TTL is loaded and
\* assigned under _index_lock
LoadSnapshot ==
  \E t \in DOMAIN threads :
    /\ threads[t].pc = "li_snapshot"
    /\ IF cache_file.exists /\ now - cache_file.ts < index_ttl
       THEN /\ index_phone_to_row' = cache_file.index
            /\ index_timestamp' = cache_file.ts
            /\ threads' = [threads EXCEPT ![t] = [@ EXCEPT !.pc = threads[t].ret]]
       ELSE /\ UNCHANGED <<index_phone_to_row, index_timestamp>>
            /\ threads' = [threads EXCEPT ![t] = [@ EXCEPT !.pc = "li_column"]]
    /\ UNCHANGED <<service, headers, client_column, row_cache, row_cache_size,
                   cache_file, shared_vars, history_vars>>

\* load_index, lines 467-488: the read of the column and the empty index_map
ReadColumn ==
  \E t \in DOMAIN threads :
    /\ threads[t].pc = "li_column"
    /\ threads' = [threads EXCEPT ![t] =
          [@ EXCEPT !.pc = "li_loop",
                    !.phones = column_values(sheet, IF client_column < 0 THEN 0
                                                    ELSE client_column),
                    !.i = 1,
                    !.index_map = <<>>]]
    /\ latest_read' = [done |-> TRUE,
                       phones |-> column_values(sheet, IF client_column < 0 THEN 0
                                                       ELSE client_column)]
    /\ UNCHANGED <<engine_vars, shared_vars>>

\* load_index, lines 490-494: one iteration of the loop
BuildStep ==
  \E t \in DOMAIN threads :
    /\ threads[t].pc = "li_loop"
    /\ threads[t].i <= Len(threads[t].phones)
    /\ \E index_map \in {index_add(threads[t].phones, threads[t].i, threads[t].index_map)} :
          /\ threads' = [threads EXCEPT ![t] =
                [@ EXCEPT !.i = @ + 1, !.index_map = index_map]]
          /\ index_phone_to_row' = index_during_build(index_phone_to_row, index_map)
    /\ UNCHANGED <<service, headers, client_column, index_timestamp, row_cache,
                   row_cache_size, cache_file, shared_vars, history_vars>>

\* load_index, lines 496-498 under _index_lock: the finished index_map
\* becomes the index
SwapIndex ==
  \E t \in DOMAIN threads :
    /\ threads[t].pc = "li_loop"
    /\ threads[t].i > Len(threads[t].phones)
    /\ index_phone_to_row' = threads[t].index_map
    /\ index_timestamp' = now
    /\ threads' = [threads EXCEPT ![t] =
          [@ EXCEPT !.pc = "li_persist", !.phones = <<>>, !.i = 0, !.index_map = <<>>]]
    /\ UNCHANGED <<service, headers, client_column, row_cache, row_cache_size,
                   cache_file, shared_vars, history_vars>>

\* load_index, lines 501-509: the snapshot file is written from the fields
Persist ==
  \E t \in DOMAIN threads :
    /\ threads[t].pc = "li_persist"
    /\ cache_file' = [exists |-> TRUE, ts |-> index_timestamp,
                      index |-> index_phone_to_row]
    /\ threads' = [threads EXCEPT ![t] = [@ EXCEPT !.pc = threads[t].ret]]
    /\ UNCHANGED <<service, headers, client_column, index_phone_to_row,
                   index_timestamp, row_cache, row_cache_size, shared_vars, history_vars>>

\* the refresher thread (lines 352-361): its sleep is over and it calls
\* load_index; running counts the background refreshes in execution
RefresherFire ==
  \E t \in DOMAIN threads :
    /\ t = "refresher"
    /\ now >= refresher_wake
    /\ refresher_fires(threads[t].pc)
    /\ threads' = [threads EXCEPT ![t] =
          [@ EXCEPT !.pc = "li_header", !.ret = "r_sleep", !.running = @ + 1]]
    /\ UNCHANGED <<engine_vars, shared_vars, history_vars>>

\* load_index has returned to the loop, which goes to sleep again
RefresherSleep ==
  \E t \in DOMAIN threads :
    /\ threads[t].pc = "r_sleep"
    /\ refresher_wake' = now + index_ttl
    /\ threads' = [threads EXCEPT ![t] =
          [@ EXCEPT !.pc = "sleep", !.ret = "none", !.running = @ - 1]]
    /\ UNCHANGED <<engine_vars, sheet, now, bot_vars, last, resolved, latest_read, runner>>

NextConc ==
  \/ Call \/ EnsureIndex \/ IndexGet \/ CacheTest \/ CacheHit \/ FetchRow
  \/ CacheStore \/ SuffixScan \/ IndexReget \/ Return
  \/ ReadHeader \/ LoadSnapshot \/ ReadColumn \/ BuildStep \/ SwapIndex \/ Persist
  \/ RefresherFire \/ RefresherSleep
  \/ Tick

SpecConc == InitConc /\ [][NextConc]_vars

(***************************************************************************)
(* Two lookups in two executor threads while the sheet is edited           *)
(***************************************************************************)
InitRace ==
  \E fails \in {NoFailure, [n \in 1..MaxReads |-> n = 3]} :
     InitSized(TRUE, ConcSheet, fails, ROW_CACHE_SIZE, [t \in Workers |-> ThreadAt("idle")])

\* somebody gives the client of row 2 the spare identifying cell
IdEdit ==
  /\ sheet = ConcSheet
  /\ sheet' = [sheet EXCEPT !.rows[1] = MakeRow(sheet.headers, <<"4", "4", "4">>)]
  /\ UNCHANGED <<engine_vars, refresher_wake, now, bot_vars, last, resolved, threads,
                 latest_read, runner>>

NextRace ==
  \/ Call \/ EnsureIndex \/ IndexGet \/ CacheTest \/ CacheHit \/ FetchRow
  \/ CacheStore \/ SuffixScan \/ IndexReget \/ Return
  \/ ReadHeader \/ LoadSnapshot \/ ReadColumn \/ BuildStep \/ SwapIndex \/ Persist
  \/ IdEdit

SpecRace == InitRace /\ [][NextRace]_vars

(***************************************************************************)
(* The bot: messages handled by TelegramBot.handle_message                 *)
(***************************************************************************)
NoEntities == <<>>

Mention(offset, length) == [type |-> "mention", offset |-> offset, length |-> length]

TextMessage(text, entities, reply_from) ==
  [text |-> text, caption |-> <<>>, entities |-> entities,
   caption_entities |-> <<>>, reply_from |-> reply_from]

CaptionMessage(caption, entities, reply_from) ==
  [text |-> <<>>, caption |-> caption, entities |-> <<>>,
   caption_entities |-> entities, reply_from |-> reply_from]

PrivateChat == [id |-> 1, type |-> "private"]

GroupChat == [id |-> 2, type |-> "group"]

Users == {1}

\* the updates of the bot specification: in the private chat a number typed
\* with a dash and a text without digits; in the group a mention, replies to
\* one of the bot's messages (a number, the same number with a leading zero,
\* a text without digits), and a message that is neither mention nor reply
Updates ==
  { [chat |-> PrivateChat,
     message |-> TextMessage(<<"1", "2", "3", "-", "4">>, NoEntities, 0)],
    [chat |-> PrivateChat,
     message |-> TextMessage(<<"h", "o", "l", "a">>, NoEntities, 0)],
    [chat |-> GroupChat,
     message |-> TextMessage(<<"@", "b", "o", " ", "1", "2", "3", "4">>, <<Mention(0, 3)>>, 0)],
    [chat |-> GroupChat,
     message |-> TextMessage(<<"1", "2", "3", "4">>, NoEntities, BotUser.id)],
    [chat |-> GroupChat,
     message |-> TextMessage(<<"0", "1", "2", "3", "4">>, NoEntities, BotUser.id)],
    [chat |-> GroupChat,
     message |-> TextMessage(<<"h", "o", "l", "a">>, NoEntities, BotUser.id)],
    [chat |-> GroupChat,
     message |-> TextMessage(<<"1", "2", "3", "4">>, NoEntities, 0)] }

\* the sheet of the bot specification
BotSheet ==
  [headers |-> <<HdrNom, HdrId>>,
   rows |-> <<MakeRow(<<HdrNom, HdrId>>, <<"1", "2", "3", "4">>)>>]

InitBot ==
  \E svc \in BOOLEAN, fails \in InitFailures : InitWith(svc, BotSheet, fails)

\* get_me is only called while self.bot_info is unset
GetMeOutcomes == IF bot_info.known THEN {TRUE} ELSE BOOLEAN

AuditOutcomes == {"not_started", "written", "failed", "never"}

\* reads fail and an audit write is made only when a lookup is issued
HandleMessage ==
  \E update \in Updates, user_id \in Users, get_me_ok \in GetMeOutcomes :
   \E h0 \in {handle_message(Engine, bot_info, recent_messages, update.chat, user_id,
                              update.message, sheet, now, get_me_ok, NoFailure,
                              "written")} :
    \E fails \in RelevantFailures(Len(h0.calls)),
       audit_outcome \in (IF h0.looked_up THEN AuditOutcomes ELSE {"written"}) :
     \E h \in {handle_message(Engine, bot_info, recent_messages, update.chat, user_id,
                               update.message, sheet, now, get_me_ok, fails,
                               audit_outcome)} :
         /\ SetEngine(h.e)
         /\ bot_info' = h.bot_info
         /\ recent_messages' = h.recent_messages
         /\ last' = [op |-> "message", chat |-> update.chat, user_id |-> user_id,
                     message |-> update.message, step |-> h.step,
                     addressed |-> h.addressed, processed |-> h.processed,
                     client_number |-> h.client_number, looked_up |-> h.looked_up,
                     result |-> h.result, lookup_path |-> h.lookup_path,
                     calls |-> h.calls, audit |-> h.audit,
                     audit_thread |-> h.audit_thread, reply |-> h.reply]
         /\ UNCHANGED <<refresher_wake, sheet, now, dedupe_window, resolved, threads,
                        latest_read, runner>>

NextBot == HandleMessage \/ Tick

SpecBot == InitBot /\ [][NextBot]_vars

(***************************************************************************)
(* Repeated messages in private chats, with a dedup window of two ticks    *)
(***************************************************************************)
InitDedup ==
  \E svc \in BOOLEAN, fails \in InitFailures :
     /\ InitEngine(svc, BotSheet, fails, ROW_CACHE_SIZE, NoThreads)
     /\ dedupe_window = DEDUP_WINDOW_SECONDS + 1

\* handle_message runs on a private message; the audit write succeeds
HandleRepeated ==
  \E update \in {u \in Updates : u.chat.type = "private"}, user_id \in Users :
   \E h0 \in {handle_message(Engine, bot_info, recent_messages, update.chat, user_id,
                              update.message, sheet, now, TRUE, NoFailure, "written")} :
    \E fails \in RelevantFailures(Len(h0.calls)) :
     \E h \in {handle_message(Engine, bot_info, recent_messages, update.chat, user_id,
                               update.message, sheet, now, TRUE, fails, "written")} :
         /\ SetEngine(h.e)
         /\ bot_info' = h.bot_info
         /\ recent_messages' = h.recent_messages
         /\ last' = [op |-> "message", chat |-> update.chat, user_id |-> user_id,
                     message |-> update.message, step |-> h.step,
                     addressed |-> h.addressed, processed |-> h.processed,
                     client_number |-> h.client_number, looked_up |-> h.looked_up,
                     result |-> h.result, lookup_path |-> h.lookup_path,
                     calls |-> h.calls, audit |-> h.audit,
                     audit_thread |-> h.audit_thread, reply |-> h.reply]
         /\ UNCHANGED <<refresher_wake, sheet, now, dedupe_window, resolved, threads,
                        latest_read, runner>>

NextDedup == HandleRepeated \/ Tick

SpecDedup == InitDedup /\ [][NextDedup]_vars

(***************************************************************************)
(* The addressing step alone, over a wider set of messages                 *)
(***************************************************************************)
MaxTokens == 3

Tokens == { <<"@", "B", "o">>, <<"@", "b", "o">>, <<"1", "2", "3">>, <<" ">>, <<"x">> }

RECURSIVE TextsUpTo(_)
TextsUpTo(n) ==
  IF n = 0 THEN {<<>>}
  ELSE LET S == TextsUpTo(n - 1) IN S \cup {s \o t : s \in S, t \in Tokens}

AddrTexts == TextsUpTo(MaxTokens)

IsHandleChar(c) == c \notin Whitespace /\ c # "@"

RECURSIVE HandleRunLen(_, _)
HandleRunLen(s, i) ==
  IF i <= Len(s) /\ IsHandleChar(s[i]) THEN 1 + HandleRunLen(s, i + 1) ELSE 0

\* the mention annotations Telegram attaches: one per "@name" span
RECURSIVE TelegramMentions(_, _)
TelegramMentions(s, i) ==
  IF i > Len(s) THEN <<>>
  ELSE IF s[i] = "@" /\ HandleRunLen(s, i + 1) > 0
       THEN <<Mention(i - 1, 1 + HandleRunLen(s, i + 1))>>
            \o TelegramMentions(s, i + 1 + HandleRunLen(s, i + 1))
       ELSE TelegramMentions(s, i + 1)

\* no annotation, Telegram's mention annotations, or one that is no mention
EntityChoices(s) ==
  { NoEntities, TelegramMentions(s, 1),
    <<[type |-> "code", offset |-> 0, length |-> Len(s)]>> }

ChatTypes == {"private", "group", "supergroup", "channel"}

InitAddr == InitWith(TRUE, BotSheet, [n \in 1..MaxReads |-> FALSE])

\* _addressed_and_processed_text runs on the next update
AddressMessage ==
  /\ last.op # "address"
  /\ \E chat_type \in ChatTypes, s \in AddrTexts, r \in {0, BotUser.id, OtherUser.id},
        captioned \in BOOLEAN, get_me_ok \in BOOLEAN :
        \E ents \in EntityChoices(s) :
          \E message \in {IF captioned THEN CaptionMessage(s, ents, r)
                                        ELSE TextMessage(s, ents, r)} :
            \E bi \in {bot_info_after(chat_type, bot_info, get_me_ok)} :
              \E ap \in {addressed_and_processed_text(chat_type, message, bi)} :
                /\ bot_info' = bi
                /\ last' = [op |-> "address", chat_type |-> chat_type,
                            message |-> message,
                            mentioned |-> is_mentioned_in_message(message, bi),
                            addressed |-> ap.addressed, processed |-> ap.processed]
  /\ UNCHANGED <<engine_vars, refresher_wake, sheet, now, recent_messages,
                 dedupe_window, resolved, threads, latest_read, runner>>

\* the handler has returned; the bot waits for the next update
Returned ==
  /\ last.op \in {"address", "normalize", "extract", "build", "schema"}
  /\ last' = [op |-> "idle"]
  /\ UNCHANGED <<engine_vars, refresher_wake, sheet, now, bot_vars, resolved, threads, latest_read, runner>>

NextAddr == AddressMessage \/ Returned

SpecAddr == InitAddr /\ [][NextAddr]_vars

(***************************************************************************)
(* The two key functions alone, over every short string                    *)
(***************************************************************************)
MaxLen == 5

KeyChars == {"0", "1", "a", "-"}

RECURSIVE StringsUpTo(_)
StringsUpTo(n) ==
  IF n = 0 THEN {<<>>}
  ELSE LET S == StringsUpTo(n - 1) IN S \cup {Append(s, c) : s \in S, c \in KeyChars}

KeyTexts == StringsUpTo(MaxLen)

\* _normalize_phone is called on raw, and on its own result
NormalizePhone ==
  /\ last.op \in {"init", "idle"}
  /\ \E raw \in KeyTexts :
        last' = [op |-> "normalize", input |-> raw, output |-> normalize_phone(raw),
                 twice |-> normalize_phone(normalize_phone(raw))]
  /\ UNCHANGED <<engine_vars, refresher_wake, sheet, now, bot_vars, resolved, threads, latest_read, runner>>

\* _extract_client_number is called on text
ExtractClientNumber ==
  /\ last.op \in {"init", "idle"}
  /\ \E text \in KeyTexts :
        last' = [op |-> "extract", input |-> text, output |-> extract_client_number(text)]
  /\ UNCHANGED <<engine_vars, refresher_wake, sheet, now, bot_vars, resolved, threads, latest_read, runner>>

NextKey == NormalizePhone \/ ExtractClientNumber \/ Returned

SpecKey == InitAddr /\ [][NextKey]_vars

(***************************************************************************)
(* The index build and the schema discovery on their own                   *)
(***************************************************************************)
MaxColumn == 3

\* cells of a column as values().get returns them: [] for an empty cell
ColumnCells ==
  {<<>>, << <<"1", "2">> >>, << <<"0", "1", "2">> >>, << <<"a">> >>, << <<"3">> >>}

RECURSIVE ListsUpTo(_, _)
ListsUpTo(S, n) ==
  IF n = 0 THEN {<<>>}
  ELSE LET L == ListsUpTo(S, n - 1) IN L \cup {Append(l, x) : l \in L, x \in S}

\* the loop of lines 490-494 run one iteration at a time
RECURSIVE BuildBysteps(_, _, _)
BuildBysteps(phones, i, index_map) ==
  IF i > Len(phones) THEN index_map
  ELSE BuildBysteps(phones, i + 1, index_add(phones, i, index_map))

\* load_index builds the index of a column, twice
BuildColumn ==
  /\ last.op \in {"init", "idle"}
  /\ \E phones \in ListsUpTo(ColumnCells, MaxColumn) :
        last' = [op |-> "build", phones |-> phones,
                 index_map |-> BuildIndex(phones, 1, <<>>),
                 again |-> BuildBysteps(phones, 1, <<>>)]
  /\ UNCHANGED <<engine_vars, refresher_wake, sheet, now, bot_vars, resolved, threads, latest_read, runner>>

HeaderTexts ==
  {HdrNom, HdrTel, <<" ", "I", "D", " ">>, <<"C", "o", "d", "e", "2">>,
   <<"N", "u", "m", "b", "e", "r">>}

\* _find_client_column runs on a header row
FindClientColumn ==
  /\ last.op \in {"init", "idle"}
  /\ \E hdrs \in ListsUpTo(HeaderTexts, MaxColumn) :
       \E e \in {find_client_column(NewEngine(TRUE), [headers |-> hdrs, rows |-> <<>>],
                                     NoFailure)} :
        last' = [op |-> "schema", header_row |-> hdrs, headers |-> e.headers,
                 client_column |-> e.client_column]
  /\ UNCHANGED <<engine_vars, refresher_wake, sheet, now, bot_vars, resolved, threads, latest_read, runner>>

NextBuild == BuildColumn \/ FindClientColumn \/ Returned

SpecBuild == InitAddr /\ [][NextBuild]_vars

(***************************************************************************)
(* bot_runner: the Flask server runs with threaded=True (line 174), so     *)
(* each request to '/' is served by health_check in a thread of its own.   *)
(* runner.requests[r] is the position of request r in health_check;        *)
(* Thread objects are numbered in the order of their creation.             *)
(***************************************************************************)
\* a request to '/' arrives
HealthCheckArrives ==
  \E r \in 1..MaxRequests :
    /\ runner.requests[r] = "idle"
    /\ runner' = [runner EXCEPT !.requests[r] = "test"]
    /\ UNCHANGED <<engine_vars, refresher_wake, sheet, now, bot_vars, last, resolved,
                   threads, latest_read>>

\* line 95: `if bot_thread is None or not bot_thread.is_alive()`; no lock is
\* taken, so the test of one request runs wherever the other requests are
HealthCheckTest ==
  \E r \in 1..MaxRequests :
    /\ runner.requests[r] = "test"
    /\ runner' = [runner EXCEPT !.requests[r] =
          IF runner.bot_thread = 0 \/ runner.bot_thread \notin runner.alive
          THEN "create" ELSE "respond"]
    /\ UNCHANGED <<engine_vars, refresher_wake, sheet, now, bot_vars, last, resolved,
                   threads, latest_read>>

\* line 98: bot_thread = threading.Thread(target=run_bot, ...)
HealthCheckCreate ==
  \E r \in 1..MaxRequests :
    /\ runner.requests[r] = "create"
    /\ runner.created < MaxThreads
    /\ runner' = [runner EXCEPT !.requests[r] = "start",
                                !.created = @ + 1,
                                !.bot_thread = runner.created + 1]
    /\ UNCHANGED <<engine_vars, refresher_wake, sheet, now, bot_vars, last, resolved,
                   threads, latest_read>>

\* line 99: bot_thread.start(), on whatever the global names now; starting
\* a started thread raises RuntimeError
HealthCheckStart ==
  \E r \in 1..MaxRequests :
    /\ runner.requests[r] = "start"
    /\ runner' = [runner EXCEPT !.requests[r] = "respond",
                                !.started = @ \cup {runner.bot_thread},
                                !.alive = IF runner.bot_thread \in runner.started THEN @
                                          ELSE @ \cup {runner.bot_thread}]
    /\ UNCHANGED <<engine_vars, refresher_wake, sheet, now, bot_vars, last, resolved,
                   threads, latest_read>>

\* lines 102-108: the response is sent
HealthCheckRespond ==
  \E r \in 1..MaxRequests :
    /\ runner.requests[r] = "respond"
    /\ runner' = [runner EXCEPT !.requests[r] = "idle"]
    /\ UNCHANGED <<engine_vars, refresher_wake, sheet, now, bot_vars, last, resolved,
                   threads, latest_read>>

\* run_bot returns (lines 79-84: the import failed, or a shutdown was asked)
RunBotReturns ==
  \E t \in runner.alive :
    /\ runner' = [runner EXCEPT !.alive = @ \ {t}]
    /\ UNCHANGED <<engine_vars, refresher_wake, sheet, now, bot_vars, last, resolved,
                   threads, latest_read>>

NextRunner ==
  \/ HealthCheckArrives \/ HealthCheckTest \/ HealthCheckCreate \/ HealthCheckStart
  \/ HealthCheckRespond \/ RunBotReturns

SpecRunner == InitAddr /\ [][NextRunner]_vars


(***************************************************************************)
(* Properties of the addressing step (specification SpecAddr)              *)
(***************************************************************************)
MessageText(m) == Or(m.text, m.caption)

\* the message carries no annotation of type mention
NoMentionAnnotation(m) ==
  /\ \A i \in 1..Len(m.entities) : m.entities[i].type # "mention"
  /\ \A i \in 1..Len(m.caption_entities) : m.caption_entities[i].type # "mention"

\* "@<bot handle>", lower-cased
BotHandle == <<"@">> \o LowerStr(BotUser.username)

\* an occurrence of the handle, in any case, starts at position j of s
HandleAt(s, j) ==
  /\ j + Len(BotHandle) - 1 <= Len(s)
  /\ LowerStr(SubSeq(s, j, j + Len(BotHandle) - 1)) = BotHandle

ContainsHandle(s) == \E j \in 1..Len(s) : HandleAt(s, j)

\* s without the characters of any occurrence of the handle
RECURSIVE WithoutHandleFrom(_, _)
WithoutHandleFrom(s, i) ==
  IF i > Len(s) THEN <<>>
  ELSE (IF \E j \in 1..i : HandleAt(s, j) /\ i < j + Len(BotHandle)
        THEN <<>> ELSE <<s[i]>>) \o WithoutHandleFrom(s, i + 1)

WithoutHandle(s) == WithoutHandleFrom(s, 1)

\* r is s without its leading and trailing whitespace
IsStripOf(r, s) ==
  \E a \in 0..Len(s), b \in 0..Len(s) :
     /\ a + b <= Len(s)
     /\ r = SubSeq(s, a + 1, Len(s) - b)
     /\ \A i \in 1..a : s[i] \in Whitespace
     /\ \A i \in (Len(s) - b + 1)..Len(s) : s[i] \in Whitespace
     /\ r # <<>> => (r[1] \notin Whitespace /\ r[Len(r)] \notin Whitespace)

HasDigit(s) == \E i \in 1..Len(s) : s[i] \in Digits

InGroup == last.op = "address" /\ last.chat_type \in {"group", "supergroup"}

\* C7 as stated: in a group or supergroup, a message with no mention
\* annotation that is no reply to a message of the bot is not addressed;
\* the result is (False, "").
C7_AsStated ==
  (/\ InGroup
   /\ NoMentionAnnotation(last.message)
   /\ last.message.reply_from # BotUser.id)
  => (last.addressed = FALSE /\ last.processed = <<>>)

\* C7 amended: in a group or supergroup, a message with no mention
\* annotation, whose text or caption does not contain "@<bot handle>" in any
\* case, and that is no reply to a message of the bot, is not addressed; the
\* result is (False, "").
C7_UnaddressedGroup ==
  (/\ InGroup
   /\ NoMentionAnnotation(last.message)
   /\ ~ContainsHandle(MessageText(last.message))
   /\ last.message.reply_from # BotUser.id)
  => (last.addressed = FALSE /\ last.processed = <<>>)

\* a group message with a number that replies to another user's message,
\* handled while the bot knows who it is, was left unaddressed
C7_Witness ==
  /\ InGroup
  /\ bot_info.known
  /\ NoMentionAnnotation(last.message)
  /\ ~ContainsHandle(MessageText(last.message))
  /\ last.message.reply_from = OtherUser.id
  /\ HasDigit(MessageText(last.message))
  /\ last.addressed = FALSE

\* C8 as stated: in a private chat every message is addressed and the
\* residual text is the message's text, or its caption when it has no text.
C8_AsStated ==
  (last.op = "address" /\ last.chat_type = "private")
  => (last.addressed = TRUE /\ last.processed = MessageText(last.message))

\* C8 amended: in a private chat every message is addressed, whatever its
\* content and whether or not the handle is known, and the residual text is
\* the message's text, or its caption when it has no text, without its
\* leading and trailing whitespace.
C8_PrivateAddressed ==
  (last.op = "address" /\ last.chat_type = "private")
  => (last.addressed = TRUE /\ IsStripOf(last.processed, MessageText(last.message)))

\* a private caption-bearing message framed by whitespace was addressed
\* while the handle was unknown
C8_Witness ==
  /\ last.op = "address"
  /\ last.chat_type = "private"
  /\ ~bot_info.known
  /\ last.message.text = <<>>
  /\ HasDigit(last.message.caption)
  /\ last.message.caption[1] \in Whitespace
  /\ last.addressed = TRUE
  /\ HasDigit(last.processed)

\* C9: in a group, a message detected as mentioning the bot is addressed and
\* its residual text is the text with every occurrence of "@<bot handle>",
\* in any case, removed (and, as in "@mybot 12345" -> "12345", the
\* whitespace left at its ends stripped).
C9_MentionResidual ==
  (InGroup /\ last.mentioned)
  => /\ last.addressed = TRUE
     /\ IsStripOf(last.processed, WithoutHandle(MessageText(last.message)))

\* a group message "@Bo 123..." or "@bo 123..." written with two spellings of
\* the handle was addressed and its number kept
C9_Witness ==
  /\ InGroup
  /\ last.mentioned
  /\ HandleAt(MessageText(last.message), 1)
  /\ \E j \in 2..Len(MessageText(last.message)) :
        /\ HandleAt(MessageText(last.message), j)
        /\ SubSeq(MessageText(last.message), j, j + 2) # SubSeq(MessageText(last.message), 1, 3)
  /\ last.processed = <<"1", "2", "3">>

MentionSpans(m) ==
  {LowerStr(Slice(m.text, m.entities[i].offset,
                  m.entities[i].offset + m.entities[i].length)) :
     i \in {j \in 1..Len(m.entities) : m.entities[j].type = "mention"}}
  \cup
  {LowerStr(Slice(m.caption, m.caption_entities[i].offset,
                  m.caption_entities[i].offset + m.caption_entities[i].length)) :
     i \in {j \in 1..Len(m.caption_entities) : m.caption_entities[j].type = "mention"}}

\* C11: a group message that carries mention annotations none of which spans
\* text equal (in any case) to "@<bot handle>" is not treated as a mention of
\* the bot, even when "@<bot handle>" occurs in its text.
C11_AnnotationsPreferred ==
  (/\ InGroup
   /\ MentionSpans(last.message) # {}
   /\ BotHandle \notin MentionSpans(last.message))
  => ~last.mentioned

\* C12: when the handle is known and the message carries no annotation at
\* all, _is_mentioned_in_message is True exactly when the raw text (or the
\* caption) contains "@<bot handle>" in any case.
C12_FallbackSubstring ==
  (/\ last.op = "address"
   /\ bot_info.known
   /\ last.message.entities = <<>>
   /\ last.message.caption_entities = <<>>)
  => (last.mentioned <=> ContainsHandle(MessageText(last.message)))

\* a caption without annotations that holds the handle in capitals, not at
\* its start, was detected as a mention
C12_Witness ==
  /\ last.op = "address"
  /\ bot_info.known
  /\ last.message.entities = <<>>
  /\ last.message.caption_entities = <<>>
  /\ last.message.text = <<>>
  /\ ~HandleAt(last.message.caption, 1)
  /\ \E j \in 2..Len(last.message.caption) :
        /\ HandleAt(last.message.caption, j)
        /\ SubSeq(last.message.caption, j, j + 2) # BotHandle
  /\ last.mentioned

(***************************************************************************)
(* Properties of the lookup (specifications Spec and SpecBot)              *)
(***************************************************************************)
\* all digits of s in order, leading zeros stripped
AllDigitsKey(s) == LStripZeros(SelectSeq(s, IsDigit))

\* s has no digit other than 0: it normalizes to the empty key
NoKeyIn(s) == \A i \in 1..Len(s) : s[i] \notin (Digits \ {"0"})

EndsWith(k, suffix) ==
  /\ Len(suffix) <= Len(k)
  /\ SubSeq(k, Len(k) - Len(suffix) + 1, Len(k)) = suffix

\* the keys of the index that end with key
SuffixKeys(index, key) == {k \in DictKeys(index) : EndsWith(k, key)}

NoReadFailed(calls) == \A n \in 1..Len(calls) : ~calls[n].failed

RowReadFailed(calls) == \E n \in 1..Len(calls) : calls[n].op = "row" /\ calls[n].failed

\* the cell of the identifying column in row row_num of the sheet, "" if none
IdCellOf(sh, row_num) ==
  IF /\ row_num - 1 \in 1..Len(sh.rows)
     /\ Len(sh.rows[row_num - 1]) > client_column
  THEN sh.rows[row_num - 1][client_column + 1]
  ELSE <<>>

\* some row of the sheet holds key in its identifying column
KeyInSheet(sh, key) ==
  \E i \in 1..Len(sh.rows) : AllDigitsKey(IdCellOf(sh, i + 1)) = key

\* the value the record has for the identifying column, "" if none
IdFieldOf(record) ==
  IF client_column + 1 \in 1..Len(headers) /\ DictHas(record, headers[client_column + 1])
  THEN DictGet(record, headers[client_column + 1])
  ELSE <<>>

LookedUp == last.op = "lookup"

\* C1: for every addressed message that is looked up, the key of the lookup
\* is the sequence of all digits of the message text, in order, with
\* leading zeros stripped.
C1_KeyIsAllDigits ==
  (last.op = "message" /\ last.looked_up)
  => last.client_number = AllDigitsKey(last.processed)

\* C2: when the key has no entry in the index the lookup reads and exactly
\* one key of that index ends with it, get_client_data (no read failing,
\* the row of that key being in the sheet) returns a record.
C2_SuffixMatchFound ==
  (/\ LookedUp
   /\ AllDigitsKey(last.input) # <<>>
   /\ ~DictHas(last.index_read, AllDigitsKey(last.input))
   /\ Cardinality(SuffixKeys(last.index_read, AllDigitsKey(last.input))) = 1
   /\ NoReadFailed(last.calls)
   /\ \A k \in SuffixKeys(last.index_read, AllDigitsKey(last.input)) :
         row_values(sheet, DictGet(last.index_read, k)) # <<>>)
  => last.result.found

\* C3: on an index miss get_client_data re-reads the identifying column of
\* the live sheet whatever the age of the index and of its snapshot, so a
\* key that is in the sheet is returned as found by the lookup that missed
\* (the schema having been discovered and no read failing).
C3_MissRebuildsFromSource ==
  (/\ LookedUp
   /\ service
   /\ headers # <<>>
   /\ AllDigitsKey(last.input) # <<>>
   /\ ~DictHas(last.index_read, AllDigitsKey(last.input))
   /\ NoReadFailed(last.calls))
  => /\ \E n \in 1..Len(last.calls) : last.calls[n].op = "column"
     /\ KeyInSheet(sheet, AllDigitsKey(last.input)) => last.result.found

\* C4: when the row fetch of a key that is in the index fails, the outcome
\* of the lookup differs from the not-found outcome and the reply is not the
\* "no match" reply.
C4_RowErrorDistinct ==
  (last.op = "message" /\ last.looked_up /\ RowReadFailed(last.calls))
  => (last.result # NotFound /\ last.reply # "not_found")

\* C5: a lookup whose input normalizes to the empty key returns not-found
\* and makes no read of the data source, in every engine state.
C5_EmptyKeyNoReads ==
  (LookedUp /\ NoKeyIn(last.input))
  => (last.result = NotFound /\ last.calls = <<>>)

SearchKeyOf(text) == normalize_phone(extract_client_number(text))

\* C13: a message classified as not addressed causes no further processing:
\* no dedup entry is recorded, no lookup is issued (the engine and the data
\* source are left alone), no audit event is written and no reply is sent.
C13_UnaddressedNoProcessing ==
  [][(last'.op = "message" /\ ~last'.addressed)
     => /\ recent_messages' = recent_messages
        /\ engine_vars' = engine_vars
        /\ ~last'.looked_up
        /\ last'.calls = <<>>
        /\ last'.audit = "none"
        /\ last'.reply = "none"]_vars

\* a group message holding a number, neither mention nor reply, was left
\* unaddressed while the bot knew its handle and an earlier request was
\* still in the dedup store
C13_Witness ==
  /\ last.op = "message"
  /\ ~last.addressed
  /\ last.chat.type = "group"
  /\ bot_info.known
  /\ HasDigit(MessageText(last.message))
  /\ recent_messages # {}
  /\ last.reply = "none"

\* C14: every addressed message that yields no search key is answered with
\* the prompt to resend a valid client number; a message that is not
\* addressed gets no prompt.
C14_PromptWhenAddressed ==
  /\ (last.op = "message" /\ last.step = "no_number") => last.reply = "invalid_number"
  /\ (last.op = "message" /\ ~last.addressed) => last.reply # "invalid_number"

\* C15: of two addressed messages of one conversation that follow each other
\* within the dedup window and whose texts normalize to the same search key,
\* only the first triggers a lookup.
C15_DedupBySearchKey ==
  [][(/\ last.op = "message"
      /\ last.looked_up
      /\ last'.op = "message"
      /\ last'.addressed
      /\ last'.chat.id = last.chat.id
      /\ now' - now < dedupe_window
      /\ SearchKeyOf(last'.processed) = last.client_number)
     => ~last'.looked_up]_vars

(***************************************************************************)
(* Properties of the engine (specification Spec)                           *)
(***************************************************************************)
ColumnReadFailed(calls) == \E n \in 1..Len(calls) : calls[n].op = "column" /\ calls[n].failed

ColumnRead(calls) == \E n \in 1..Len(calls) : calls[n].op = "column" /\ ~calls[n].failed

RowRead(calls) == \E n \in 1..Len(calls) : calls[n].op = "row" /\ ~calls[n].failed

\* C16: the row cache never holds more than row_cache_size entries, after
\* any sequence of lookups.  The store and its eviction loop run inside one
\* `with self._row_cache_lock` block and lookups do not overlap, so the
\* states between two operations are the ones another thread can observe.
C16_CacheBound == Len(row_cache) <= row_cache_size

\* a lookup stored the record of one row in the full cache and the record of
\* another row was evicted for it
C16_Witness ==
  /\ LookedUp
  /\ RowRead(last.calls)
  /\ last.result.found
  /\ last.evicted # {}
  /\ Len(row_cache) = row_cache_size
  /\ DictKeys(row_cache) \cap last.evicted = {}

\* C17: a firing of the background refresh (the schema being known and no
\* read failing) leaves an index that was read from the data source no
\* longer ago than one TTL interval at any moment up to the next firing.
C17_StalenessBound ==
  (/\ last.op = "refresh"
   /\ service
   /\ sheet.headers # <<>>
   /\ NoReadFailed(last.calls))
  => refresher_wake - index_timestamp <= index_ttl

\* C18: when the column fetch of the index build at startup has failed, a
\* lookup attempted in that state (the column fetch still failing, the key
\* being in the sheet) returns an outcome that is not the not-found outcome.
C18_DegradedLookupError ==
  [][(/\ last.op = "init"
      /\ ColumnReadFailed(last.calls)
      /\ last'.op = "lookup"
      /\ ~NoKeyIn(last'.input)
      /\ KeyInSheet(sheet, AllDigitsKey(last'.input))
      /\ ColumnReadFailed(last'.calls)
      /\ ~ColumnRead(last'.calls))
     => last'.result # NotFound]_vars

\* C19: when the header row of the data source is empty, every lookup
\* reports not-found (get_client_data returns None, whatever its reads do).
C19_NoSchemaNotFound ==
  (LookedUp /\ sheet.headers = <<>>) => last.result = NotFound

\* under an empty header row, a lookup of the number that row 2 holds in its
\* first column went to the data source, had a read fail, and reported
\* not-found
C19_Witness ==
  /\ LookedUp
  /\ sheet.headers = <<>>
  /\ service
  /\ KeyInSheet(sheet, AllDigitsKey(last.input))
  /\ ~NoKeyIn(last.input)
  /\ ~NoReadFailed(last.calls)
  /\ last.result = NotFound

\* the cells of the row the lookup fetched, as the data source returns them
FetchedCells(key) ==
  LET values == row_values(sheet, DictGet(index_phone_to_row, key))
  IN  IF values = <<>> THEN <<>> ELSE values[1]

\* C20: a record a lookup has just fetched holds a field exactly for the
\* headers that have a cell in the fetched row: headers beyond the number of
\* fetched values are omitted.
C20_MissingCellsOmitted ==
  (LookedUp /\ last.result.found /\ RowRead(last.calls))
  => \A i \in 1..Len(headers) :
        DictHas(last.result.record, headers[i])
          <=> (i <= 4 /\ i <= Len(FetchedCells(AllDigitsKey(last.input))))

(***************************************************************************)
(* Properties of the key functions (specification SpecKey)                 *)
(***************************************************************************)
\* the positions of s that hold a digit
DigitPositions(s) == {i \in 1..Len(s) : s[i] \in Digits}

\* the position of the n-th digit of s
NthDigitPosition(s, n) ==
  CHOOSE i \in DigitPositions(s) : Cardinality({j \in DigitPositions(s) : j <= i}) = n

\* how many zeros come before the first non-zero digit of s
LeadingZeros(s) ==
  Cardinality({i \in DigitPositions(s) :
                 \A j \in DigitPositions(s) : j <= i => s[j] = "0"})

\* C21: _normalize_phone returns the digits of its input in their order
\* without the leading zeros, and "" when the input is empty, has no digit
\* or has only zeros.
C21_NormalizeDigits ==
  last.op = "normalize"
  => LET s == last.input
         z == LeadingZeros(s)
     IN  /\ Len(last.output) = Cardinality(DigitPositions(s)) - z
         /\ \A m \in 1..Len(last.output) : last.output[m] = s[NthDigitPosition(s, z + m)]

\* an input with two leading zeros, a zero inside the number and other
\* characters between the digits was normalized
C21_Witness ==
  /\ last.op = "normalize"
  /\ LeadingZeros(last.input) = 2
  /\ \E i \in 1..Len(last.input) : last.input[i] \notin Digits
  /\ last.output = <<"1", "0">>

\* C22: _normalize_phone applied to its own result returns that result.
C22_NormalizeIdempotent ==
  last.op = "normalize" => last.twice = last.output

\* an input with several leading zeros was normalized twice
C22_Witness ==
  /\ last.op = "normalize"
  /\ LeadingZeros(last.input) >= 2
  /\ last.output # <<>>
  /\ last.output # last.input
  /\ last.twice = last.output

\* a maximal run of digits of s starts at position i and has length n
MaximalRun(s, i, n) ==
  /\ n >= 1
  /\ i + n - 1 <= Len(s)
  /\ \A j \in i..(i + n - 1) : s[j] \in Digits
  /\ i = 1 \/ s[i - 1] \notin Digits
  /\ i + n - 1 = Len(s) \/ s[i + n] \notin Digits

\* the places (start, length) of the maximal runs that are long enough
LongRuns(s) ==
  {p \in (1..Len(s)) \X (1..Len(s)) : MaximalRun(s, p[1], p[2]) /\ p[2] >= min_client_digits}

\* C23: _extract_client_number returns the first maximal run of digits of
\* the text whose length is at least min_client_digits, and "" when the text
\* is empty or has no such run.
C23_FirstLongRun ==
  last.op = "extract"
  => IF LongRuns(last.input) = {} THEN last.output = <<>>
     ELSE \E p \in LongRuns(last.input) :
            /\ \A q \in LongRuns(last.input) : p[1] <= q[1]
            /\ last.output = SubSeq(last.input, p[1], p[1] + p[2] - 1)

\* a text with a run that is too short before the run that is returned
C23_Witness ==
  /\ last.op = "extract"
  /\ Len(last.input) >= 2
  /\ last.input[1] \in Digits
  /\ last.input[2] \notin Digits
  /\ Len(last.output) >= min_client_digits
  /\ last.output # <<>>

(***************************************************************************)
(* Properties of the audit log (specification SpecBot)                     *)
(***************************************************************************)
\* C24: the audit write of a search cannot influence it: whether the write
\* is made, fails, cannot be started or never completes, the reply is the
\* one the outcome of the lookup calls for, and it is sent without waiting
\* for the write.
C24_AuditCannotInfluence ==
  (last.op = "message" /\ last.looked_up)
  => last.reply = (IF last.result.found /\ last.result.record # <<>>
                   THEN "found" ELSE "not_found")

\* a client was found and the reply sent while the audit write of the
\* search hangs for ever
C24_Witness ==
  /\ last.op = "message"
  /\ last.looked_up
  /\ last.audit = "SUCCESS"
  /\ last.audit_thread = "never"
  /\ last.reply = "found"

(***************************************************************************)
(* Termination of a lookup (specification SpecLive)                        *)
(***************************************************************************)
\* C25: every lookup eventually returns an outcome, also when a row fetch or
\* an index rebuild never gets a response from the data source.
C25_LookupReturns == (last.op = "waiting") ~> (last.op = "lookup")

(***************************************************************************)
(* Eviction order of the row cache (specification SpecCache)               *)
(***************************************************************************)
\* the locator of K whose latest resolution is the oldest
LeastRecentlyResolved(h, K) ==
  h[CHOOSE i \in 1..Len(h) : h[i] \in K /\ \A j \in 1..(i - 1) : h[j] \notin K]

\* C28: whenever the row cache evicts an entry, the evicted row locator is
\* the least recently resolved of the cached ones, a resolution being a cache
\* hit or a fetch-and-store on either path.
C28_EvictsLeastRecent ==
  [][\A row_num \in DictKeys(row_cache) \ DictKeys(row_cache') :
        row_num = LeastRecentlyResolved(resolved, DictKeys(row_cache))]_vars

(***************************************************************************)
(* The schema after a refresh (specification SpecSchema)                   *)
(***************************************************************************)
\* the schema of the sheet as it is now
SchemaOf(sh) == find_client_column(NewEngine(TRUE), sh, NoFailure)

\* C30: after any refresh that read the header row, the headers used to
\* build records and the column used to build the index are those of the
\* header row read during that refresh (checked for an engine that computed
\* a schema at startup).
C30_SchemaRecomputed ==
  [][(/\ headers # <<>>
      /\ last'.op = "refresh"
      /\ last'.calls # <<>>
      /\ ~last'.calls[1].failed)
     => /\ headers' = SchemaOf(sheet).headers
        /\ client_column' = SchemaOf(sheet).client_column]_vars

(***************************************************************************)
(* Threads of one engine (specification SpecConc)                          *)
(***************************************************************************)
\* the index a finished build over the sheet gives
CompleteIndex == BuildIndex(column_values(sheet, client_column), 1, <<>>)

\* C26: every index value a lookup reads is the initial empty index, a
\* loaded snapshot or the complete result of a finished build, never a
\* partially built one, under any interleaving of load_index with lookups.
C26_NoPartialIndex ==
  /\ cache_file.exists => cache_file.index \in {<<>>, CompleteIndex}
  /\ \A t \in DOMAIN threads : threads[t].index_read \in {<<>>, CompleteIndex}

\* a lookup has read a built index while a build was holding a part of the
\* rows in its index_map
C26_Witness ==
  \E t \in DOMAIN threads :
     /\ threads[t].during_build
     /\ threads[t].index_read = CompleteIndex
     /\ Len(CompleteIndex) = 2

\* C27: a lookup that finds its row in the cache returns that cached
\* record, under any interleaving with other lookups.
C27_CachedRowReturned ==
  \A t \in DOMAIN threads :
     (threads[t].pc = "done" /\ threads[t].saw_cached)
       => threads[t].result = Found(threads[t].client_data)

\* C29: at most one background refresh of the engine is executing at any
\* time.
C29_NoOverlappingRefresh ==
  \A t \in DOMAIN threads : threads[t].running <= 1

\* a refresh is in its build while the sleep that started it is over: what
\* a firing waits for holds, and no second refresh has started
C29_Witness ==
  /\ "refresher" \in DOMAIN threads
  /\ threads["refresher"].running = 1
  /\ threads["refresher"].pc = "li_loop"
  /\ now >= refresher_wake

(***************************************************************************)
(* Reads of one lookup (specification Spec)                                *)
(***************************************************************************)
\* C31: within one get_client_data call, no data-source read that has failed
\* is issued a second time.
C31_FailedReadNotRepeated ==
  last.op = "lookup" =>
    \A i \in 1..Len(last.calls) : \A j \in (i + 1)..Len(last.calls) :
       last.calls[i].failed => last.calls[j].op # last.calls[i].op

(***************************************************************************)
(* Index build and schema discovery (specification SpecBuild)              *)
(***************************************************************************)
\* the normalized key of the i-th cell of a column
KeyOfCell(phones, i) ==
  normalize_phone(IF phones[i] # <<>> THEN phones[i][1] ELSE <<>>)

\* C32: a build maps each non-empty normalized cell value to its row number,
\* counting data rows from 2; cells with an empty key are skipped; among
\* rows with the same key the highest row number wins; two builds over the
\* same column give the same map.
C32_IndexBuild ==
  last.op = "build" =>
    LET phones == last.phones
        index_map == last.index_map
    IN  /\ DictKeys(index_map) = {KeyOfCell(phones, i) : i \in 1..Len(phones)} \ {<<>>}
        /\ Cardinality(DictKeys(index_map)) = Len(index_map)
        /\ \A n \in 1..Len(index_map) :
              /\ index_map[n].v - 1 \in 1..Len(phones)
              /\ KeyOfCell(phones, index_map[n].v - 1) = index_map[n].k
              /\ \A i \in 1..Len(phones) :
                    KeyOfCell(phones, i) = index_map[n].k => i + 1 <= index_map[n].v
        /\ last.again = index_map

\* a column of three rows where two rows have the same key and one has none
C32_Witness ==
  /\ last.op = "build"
  /\ Len(last.phones) = 3
  /\ KeyOfCell(last.phones, 1) = KeyOfCell(last.phones, 3)
  /\ last.phones[1] # last.phones[3]
  /\ KeyOfCell(last.phones, 2) = <<>>
  /\ last.index_map = <<[k |-> <<"1", "2">>, v |-> 4]>>

\* the header contains one of client, number, id, code, lower-cased and trimmed
ContainsKeyword(header) ==
  \E kw \in {<<"c", "l", "i", "e", "n", "t">>, <<"n", "u", "m", "b", "e", "r">>,
              <<"i", "d">>, <<"c", "o", "d", "e">>} :
     Contains(Strip(LowerStr(header)), kw)

\* C33: the identifying column is the first header that contains a keyword,
\* index 0 when none does, and for a non-empty header row it is within the
\* bounds of the header list.
C33_SchemaDiscovery ==
  last.op = "schema" =>
    LET hdrs == last.header_row
        col == last.client_column
        hits == {i \in 1..Len(hdrs) : ContainsKeyword(hdrs[i])}
    IN  /\ last.headers = hdrs
        /\ hits # {} => (col + 1 \in hits /\ \A i \in hits : col + 1 <= i)
        /\ hits = {} => col = 0
        /\ hdrs # <<>> => col \in 0..(Len(hdrs) - 1)

\* the keyword is inside the third header only, with other text around it
C33_Witness ==
  /\ last.op = "schema"
  /\ last.header_row = <<HdrNom, HdrTel, <<"C", "o", "d", "e", "2">> >>
  /\ last.client_column = 2

(***************************************************************************)
(* Concurrent builds (specification SpecRace)                              *)
(***************************************************************************)
\* some thread has read the column and not yet installed its index
BuildPending ==
  \E t \in DOMAIN threads : threads[t].pc = "li_loop"

\* C34: when the builds that ran concurrently have finished, the index is
\* that of the build that read the data source last.
C34_IndexNeverRegresses ==
  (latest_read.done /\ ~BuildPending)
    => index_phone_to_row = BuildIndex(latest_read.phones, 1, <<>>)

(***************************************************************************)
(* A refresh that fails (specification Spec)                               *)
(***************************************************************************)
\* the load_index call behind last returned early or raised: no service, a
\* failed or empty header read, or a failed column read
LoadFailed(l, svc, sh) ==
  \/ ~svc
  \/ l.calls # <<>> /\ l.calls[1].failed
  \/ header_values(sh, 4) = <<>>
  \/ Len(l.calls) >= 2 /\ l.calls[2].failed

\* C35: a load_index that returns early or raises (service missing, header
\* read failed or empty, column read failed) leaves index_phone_to_row and
\* index_timestamp as they were before the call.
C35_FailedRefreshKeepsIndex ==
  [][(last'.op = "refresh" /\ LoadFailed(last', service, sheet))
       => (index_phone_to_row' = index_phone_to_row
           /\ index_timestamp' = index_timestamp)]_vars

\* a refresh whose column read failed, on an engine that has an index
C35_Witness ==
  /\ last.op = "refresh"
  /\ Len(last.calls) = 2
  /\ last.calls[2].failed
  /\ index_phone_to_row # <<>>

(***************************************************************************)
(* Repeated messages (specification SpecDedup)                             *)
(***************************************************************************)
\* the dedup key of the message behind l
DedupKeyOf(l) ==
  <<l.chat.id, l.user_id, Or(l.processed, Or(l.message.text, l.message.caption))>>

\* C36: a message arriving less than dedupe_window after the last processed
\* identical message is dropped with no lookup and no reply and leaves the
\* stored time unchanged; one arriving at least dedupe_window after it is
\* processed and stored with its own time.
C36_DuplicatesKeepWindow ==
  [][(last'.op = "message" /\ last'.addressed)
     => IF \E item \in recent_messages :
              item.k = DedupKeyOf(last') /\ now - item.v < dedupe_window
        THEN /\ last'.step = "duplicate"
             /\ ~last'.looked_up
             /\ last'.reply = "none"
             /\ engine_vars' = engine_vars
             /\ \A item \in recent_messages :
                   item.k = DedupKeyOf(last') => item \in recent_messages'
             /\ \A item \in recent_messages' :
                   item.k = DedupKeyOf(last') => item \in recent_messages
        ELSE /\ last'.step # "duplicate"
             /\ [k |-> DedupKeyOf(last'), v |-> now] \in recent_messages']_vars

\* a duplicate arrived one tick after the processed message, inside the
\* window of two, and the store still holds the time of the processed one
C36_Witness ==
  /\ last.op = "message"
  /\ last.step = "duplicate"
  /\ now = 1
  /\ [k |-> DedupKeyOf(last), v |-> 0] \in recent_messages

(***************************************************************************)
(* Reads of the hit path (specification SpecStale)                         *)
(***************************************************************************)
\* C37: when the index is non-empty and contains the key, get_client_data
\* makes no header or column read, whatever the age of the index, and at
\* most one row fetch; when the row is also in the row cache it makes no
\* data-source call at all.
C37_HitPathReads ==
  [][(/\ last'.op = "lookup"
      /\ normalize_phone(last'.input) # <<>>
      /\ DictHas(index_phone_to_row, normalize_phone(last'.input)))
     => /\ Len(last'.calls) <= 1
        /\ \A n \in 1..Len(last'.calls) : last'.calls[n].op = "row"
        /\ DictHas(row_cache, DictGet(index_phone_to_row, normalize_phone(last'.input)))
             => last'.calls = <<>>]_vars

\* a lookup found its key in an index older than the TTL and fetched the row
C37_Witness ==
  /\ last.op = "lookup"
  /\ last.path = "hit_fetched"
  /\ now - index_timestamp > index_ttl
  /\ Len(last.calls) = 1

(***************************************************************************)
(* The bot thread of bot_runner (specification SpecRunner)                 *)
(***************************************************************************)
\* C38: at most one bot thread (run_bot) is alive at any time, under any
\* interleaving of concurrent health-check requests to '/'.
C38_OneBotThread == Cardinality(runner.alive) <= 1

====
